---- MODULE Spec2Model ----
(***************************************************************************)
(* A model of the figma-antd-mcp pipeline: FigmaParser (ingestion),        *)
(* CodeGenerator + AntdAnalyzer (mapping and synthesis) and CodeValidator  *)
(* (static validation).  Each component is an object of its own; its       *)
(* operations are modelled as actions over that object's fields, and each  *)
(* component has a specification of its own (SpecParse, SpecMap, SpecGen,  *)
(* SpecValidate, SpecScore).                                               *)
(*                                                                         *)
(* Conventions.  An optional JavaScript value is a sequence of length 0    *)
(* (undefined) or 1 (present).  A string the code inspects character by    *)
(* character (node names) is a sequence of one-character strings; a string *)
(* the code only copies or compares is a TLA+ string.  Fields of FigmaNode *)
(* the model does not carry are undefined in every modelled node.          *)
(***************************************************************************)
EXTENDS Integers, Sequences, FiniteSets, TLC

VARIABLES
    \* FigmaParser
    rawDocument,        \* the raw node handed to parseNode
    parsedComponents,   \* what parseNode returned (None before the call)
    \* CodeGenerator
    componentMappings,  \* CodeGenerator.componentMappings, the rule registry
    figmaNode,          \* the node under study in the mapping specification
    mappingCalls,       \* results of the successive getComponentMapping(figmaNode) calls
    otherCalls,         \* number of calls made on other nodes in between
    \* AntdAnalyzer and generateComponent
    antdDirs,           \* the component directories that exist under antd/components
    componentsCache,    \* AntdAnalyzer.componentsCache
    genConfig,          \* the GenerationConfig handed to generateComponent
    genResult,          \* what generateComponent returned (None before the call)
    genOutcome,         \* "idle", "returned" or "threw"
    \* CodeValidator
    antdComponents,     \* CodeValidator.antdComponents
    loadState,          \* loadAntdComponents: "pending" or "done"
    valCode,            \* the code argument of validate
    valOptions,         \* the options argument of validate
    valResult,          \* what validate returned (None before the call)
    valOutcome,         \* "idle", "returned" or "threw"
    \* calculateScore on its own
    scoreInput,         \* a ValidationResult handed to calculateScore
    scoreValue,         \* what calculateScore returned (None before the call)
    \* AntdAnalyzer under concurrent calls
    analyzerCalls,      \* the analyzeComponent calls: arguments, position, result
    builtObjects,       \* the number of AntdComponent objects built so far
    \* FigmaParser.parseFile
    parseCall,          \* the settled parseFile call: nodeId, fetch path, outcome
    \* generateComponentJSX on its own
    jsxConfig,          \* a GeneratedComponentConfig handed to generateComponentJSX
    jsxElement,         \* the element emitted for it (None before the call)
    \* the server's handler of tool calls
    toolCalls           \* the tool calls answered so far, with their answers

vars == <<rawDocument, parsedComponents, componentMappings, figmaNode, mappingCalls,
          otherCalls, antdDirs, componentsCache, genConfig, genResult, genOutcome,
          antdComponents, loadState, valCode, valOptions, valResult, valOutcome,
          scoreInput, scoreValue, analyzerCalls, builtObjects, parseCall,
          jsxConfig, jsxElement, toolCalls>>

parserVars == <<rawDocument, parsedComponents>>
mapVars == <<figmaNode, mappingCalls, otherCalls>>
genVars == <<antdDirs, componentsCache, genConfig, genResult, genOutcome>>
valVars == <<antdComponents, loadState, valCode, valOptions, valResult, valOutcome>>
scoreVars == <<scoreInput, scoreValue>>
analyzerVars == <<analyzerCalls, builtObjects>>
fileVars == <<parseCall>>
jsxVars == <<jsxConfig, jsxElement>>
toolVars == <<toolCalls>>

----------------------------------------------------------------------------
(* Generic helpers *)

None == <<>>
Some(x) == <<x>>
IsSome(o) == o /= <<>>
Get(o) == o[1]

Min(a, b) == IF a < b THEN a ELSE b
Max(a, b) == IF a > b THEN a ELSE b
Abs(a) == IF a < 0 THEN -a ELSE a

Range(s) == {s[i] : i \in 1..Len(s)}

RECURSIVE SeqsUpTo(_, _)
\* all sequences over S of length at most n
SeqsUpTo(S, n) ==
    IF n = 0 THEN {<<>>}
    ELSE LET shorter == SeqsUpTo(S, n - 1)
         IN shorter \cup {Append(s, x) : s \in {t \in shorter : Len(t) = n - 1}, x \in S}

----------------------------------------------------------------------------
(* Strings the code inspects: sequences of one-character strings *)

LowerOf ==
    [c \in {"A", "B", "C", "D", "I", "P", "T", "X"} |->
        CASE c = "A" -> "a" [] c = "B" -> "b" [] c = "C" -> "c" [] c = "D" -> "d"
          [] c = "I" -> "i" [] c = "P" -> "p" [] c = "T" -> "t" [] c = "X" -> "x"]

\* String.prototype.toLowerCase
keepCase(s) == s
toLowerCase(s) == [i \in 1..Len(s) |-> IF s[i] \in DOMAIN LowerOf THEN LowerOf[s[i]] ELSE s[i]]

\* String.prototype.includes
includes(s, sub) ==
    \E i \in 1..(Len(s) - Len(sub) + 1) : SubSeq(s, i, i + Len(sub) - 1) = sub

str_button == <<"b", "u", "t", "t", "o", "n">>
str_input == <<"i", "n", "p", "u", "t">>
str_card == <<"c", "a", "r", "d">>

name_PrimaryButton == <<"P", "r", "i", "m", "a", "r", "y", " ", "B", "u", "t", "t", "o", "n">>
name_TextInput == <<"T", "e", "x", "t", " ", "I", "n", "p", "u", "t">>
name_Card == <<"C", "a", "r", "d">>
name_Box == <<"B", "o", "x">>
name_Label == <<"l", "a", "b", "e", "l">>
name_Document == <<"D", "o", "c", "u", "m", "e", "n", "t">>
name_InputButton == <<"I", "n", "p", "u", "t", " ", "B", "u", "t", "t", "o", "n">>

----------------------------------------------------------------------------
(* FigmaParser: raw nodes *)

\* the largest number of nodes of a raw document
MaxRawNodes == 4
\* the largest number of nodes in the component trees handed to generateComponent
MaxGenNodes == 2

MaxTreeNodes == IF MaxRawNodes > MaxGenNodes THEN MaxRawNodes ELSE MaxGenNodes

\* The attributes of a raw node, without its id and its children; leafChildren is the
\* children field the node has when it has no child (undefined or an empty array).
\* A color channel is given in thousandths: the channel value is k / 1000.  A box is
\* placed in canvas coordinates, so x and y may lie on either side of the origin.
RawShapes ==
    {[name |-> Some(name_PrimaryButton), type |-> "COMPONENT", visible |-> None,
      absoluteBoundingBox |-> Some([x |-> 0, y |-> 0, width |-> 120, height |-> 32]),
      backgroundColor |-> Some([r |-> 1000, g |-> 0, b |-> 500]),
      strokeWeight |-> None, characters |-> None, leafChildren |-> None],
     [name |-> Some(name_Label), type |-> "TEXT", visible |-> Some(TRUE),
      absoluteBoundingBox |-> Some([x |-> -40, y |-> 0, width |-> 32, height |-> 120]),
      backgroundColor |-> None, strokeWeight |-> None, characters |-> Some("Submit"),
      leafChildren |-> None],
     [name |-> Some(name_Label), type |-> "TEXT", visible |-> None,
      absoluteBoundingBox |-> None,
      backgroundColor |-> None, strokeWeight |-> None, characters |-> Some(""),
      leafChildren |-> Some(<<>>)],
     [name |-> Some(name_Card), type |-> "FRAME", visible |-> Some(FALSE),
      absoluteBoundingBox |-> Some([x |-> 0, y |-> 40, width |-> 32, height |-> 120]),
      backgroundColor |-> Some([r |-> 250, g |-> 999, b |-> 2]),
      strokeWeight |-> Some(1), characters |-> None, leafChildren |-> Some(<<>>)]}

RawNode(shape, id, children) ==
    [id |-> id, name |-> shape.name, type |-> shape.type, visible |-> shape.visible,
     absoluteBoundingBox |-> shape.absoluteBoundingBox,
     backgroundColor |-> shape.backgroundColor, strokeWeight |-> shape.strokeWeight,
     characters |-> shape.characters, children |-> children]

\* The shape of a tree is the sequence of the shapes of its children; TreeForests[m]
\* holds the sequences of tree shapes of m nodes in all.
TreeForests[m \in 0..MaxTreeNodes] ==
    IF m = 0 THEN {<<>>}
    ELSE UNION {{<<t>> \o f : t \in TreeForests[k - 1], f \in TreeForests[m - k]} : k \in 1..m}

RECURSIVE TreePaths(_, _)
\* the ids of the nodes of a tree of this shape: a node's id is its path from the
\* root, so ids are unique in a tree
TreePaths(tree, id) ==
    {id} \cup UNION {TreePaths(tree[i], Append(id, i)) : i \in 1..Len(tree)}

RECURSIVE RawTree(_, _, _)
\* the raw tree of this shape whose node at each path has the attributes assigned to it
RawTree(tree, id, shapeAt) ==
    RawNode(shapeAt[id], id,
            IF tree = <<>> THEN shapeAt[id].leafChildren
            ELSE Some([i \in 1..Len(tree) |-> RawTree(tree[i], Append(id, i), shapeAt)]))

\* the raw documents of at most maxNodes nodes
RawDocuments(maxNodes) ==
    UNION {{RawTree(tree, <<0>>, shapeAt) : shapeAt \in [TreePaths(tree, <<0>>) -> RawShapes]} :
             tree \in UNION {TreeForests[n - 1] : n \in 1..maxNodes}}

\* the largest number of nodes of a file's document, its root included
MaxFileNodes == 3

\* the root of a file: the DOCUMENT node, with the children field it has when the
\* document is empty
DocumentShapes ==
    {[name |-> Some(name_Document), type |-> "DOCUMENT", visible |-> None,
      absoluteBoundingBox |-> None, backgroundColor |-> None, strokeWeight |-> None,
      characters |-> None, leafChildren |-> leaf] : leaf \in {None, Some(<<>>)}}

\* file.document for the files of at most maxNodes nodes
FigmaFiles(maxNodes) ==
    UNION {{RawTree(tree, <<0>>, shapeAt) :
               shapeAt \in {f \in [TreePaths(tree, <<0>>) -> RawShapes \cup DocumentShapes] :
                              \A id \in DOMAIN f : f[id] \in DocumentShapes <=> id = <<0>>}} :
             tree \in UNION {TreeForests[n - 1] : n \in 1..maxNodes}}

rawChildren(node) == IF IsSome(node.children) THEN Get(node.children) ELSE <<>>

----------------------------------------------------------------------------
(* FigmaParser: parseNode and what it calls *)

HexDigits == <<"0", "1", "2", "3", "4", "5", "6", "7", "8", "9", "a", "b", "c", "d", "e", "f">>

RECURSIVE toString16(_)
\* Number.prototype.toString(16) of an integer
toString16(n) ==
    IF n < 0 THEN <<"-">> \o toString16(-n)
    ELSE IF n < 16 THEN <<HexDigits[n + 1]>>
    ELSE toString16(n \div 16) \o <<HexDigits[(n % 16) + 1]>>

\* Math.floor(v * 255) for a channel of k thousandths
floorChannel(k) == (k * 255) \div 1000

\* Math.round(v * 255) for a channel of k thousandths: halves round up
roundChannel(k) == (k * 255 + 500) \div 1000

channelHex(x) ==
    LET hex == toString16(x) IN IF Len(hex) = 1 THEN <<"0">> \o hex ELSE hex

colorToHex(color) ==
    <<"#">> \o channelHex(roundChannel(color.r)) \o channelHex(roundChannel(color.g))
            \o channelHex(roundChannel(color.b))

extractProperties(node) ==
    IF IsSome(node.visible)
    THEN <<[name |-> "visible", value |-> Get(node.visible), type |-> "boolean"]>>
    ELSE <<>>

\* x || 0 on an optional number
OrZero(o) == IF IsSome(o) /\ Get(o) /= 0 THEN Get(o) ELSE 0

BoxField(node, f) ==
    IF IsSome(node.absoluteBoundingBox) THEN Some(Get(node.absoluteBoundingBox)[f]) ELSE None

flexDirectionOf(node) ==
    IF node.type \in {"FRAME", "COMPONENT"} /\ Len(rawChildren(node)) > 1
    THEN LET firstChild == rawChildren(node)[1]
             secondChild == rawChildren(node)[2]
         IN IF IsSome(firstChild.absoluteBoundingBox) /\ IsSome(secondChild.absoluteBoundingBox)
            THEN LET a == Get(firstChild.absoluteBoundingBox)
                     b == Get(secondChild.absoluteBoundingBox)
                     isHorizontal == Abs(a.y - b.y) < Abs(a.x - b.x)
                 IN Some(IF isHorizontal THEN "row" ELSE "column")
            ELSE None
    ELSE None

extractLayout(node) ==
    [width |-> OrZero(BoxField(node, "width")), height |-> OrZero(BoxField(node, "height")),
     x |-> OrZero(BoxField(node, "x")), y |-> OrZero(BoxField(node, "y")),
     flexDirection |-> flexDirectionOf(node)]

extractStyling(node) ==
    [backgroundColor |-> IF IsSome(node.backgroundColor)
                         THEN Some(colorToHex(Get(node.backgroundColor))) ELSE None,
     borderWidth |-> IF IsSome(node.strokeWeight) /\ Get(node.strokeWeight) /= 0
                     THEN node.strokeWeight ELSE None,
     borderColor |-> None, fills |-> None, shadows |-> None]

extractContent(node) ==
    [text |-> IF IsSome(node.characters) /\ Get(node.characters) /= ""
              THEN node.characters ELSE None]

\* list.push(...items)
unshiftAll(list, items) == items \o list
pushAll(list, items) == list \o items

RECURSIVE parseNode(_), parseChildren(_, _, _)
\* the loop of parseNode over node.children, from index i on; acc is component.children
parseChildren(children, i, acc) ==
    IF i > Len(children) THEN acc
    ELSE parseChildren(children, i + 1, pushAll(acc, parseNode(children[i])))

parseNode(node) ==
    LET component ==
            [id |-> node.id, name |-> node.name, type |-> node.type,
             properties |-> Some(extractProperties(node)),
             layout |-> Some(extractLayout(node)),
             styling |-> Some(extractStyling(node)),
             content |-> IF node.type = "TEXT" /\ IsSome(node.characters)
                            /\ Get(node.characters) /= ""
                         THEN Some(extractContent(node)) ELSE None,
             children |-> IF IsSome(node.children) /\ Len(Get(node.children)) > 0
                          THEN Some(parseChildren(Get(node.children), 1, <<>>)) ELSE None]
    IN <<component>>

----------------------------------------------------------------------------
(* FigmaParser: the specification *)

\* the part of parseFile that turns the root node into components
ParseNode ==
    /\ parsedComponents = None
    /\ \E doc \in RawDocuments(MaxRawNodes) :
         /\ rawDocument' = Some(doc)
         /\ parsedComponents' = Some(parseNode(doc))

\* the largest channel value drawn for a color, in thousandths
MaxChannel == 1000

\* the colors of the nodes parsed for their color: every red, with the ends and the
\* middle of the other channels
NodeColors(maxChannel) ==
    [r : 0..maxChannel, g : {0, 500, 1000}, b : {0, 500, 1000}]

\* parseNode on a frame without children that has this background color
ParseColoredNode ==
    /\ parsedComponents = None
    /\ \E color \in NodeColors(MaxChannel) :
         /\ rawDocument' =
               Some([id |-> <<0>>, name |-> Some(name_Card), type |-> "FRAME",
                     visible |-> None, absoluteBoundingBox |-> None,
                     backgroundColor |-> Some(color), strokeWeight |-> None,
                     characters |-> None, children |-> None])
         /\ parsedComponents' =
               Some(parseNode([id |-> <<0>>, name |-> Some(name_Card), type |-> "FRAME",
                               visible |-> None, absoluteBoundingBox |-> None,
                               backgroundColor |-> Some(color), strokeWeight |-> None,
                               characters |-> None, children |-> None]))

\* parseFile on a whole file (no nodeId): rootNode is file.document
ParseDocument ==
    /\ parsedComponents = None
    /\ \E doc \in FigmaFiles(MaxFileNodes) :
         /\ rawDocument' = Some(doc)
         /\ parsedComponents' = Some(parseNode(doc))

RECURSIVE findNodeById(_, _), findNodeByIdIn(_, _, _)
\* findNodeById that answers with the node it was given when the id is not found
findNodeByIdOrRoot(node, nodeId) ==
    IF node.id = nodeId THEN Some(node)
    ELSE IF IsSome(findNodeByIdIn(rawChildren(node), 1, nodeId))
         THEN findNodeByIdIn(rawChildren(node), 1, nodeId)
         ELSE Some(node)

\* findNodeById: the node (or null), found depth first
findNodeById(node, nodeId) ==
    IF node.id = nodeId THEN Some(node) ELSE findNodeByIdIn(rawChildren(node), 1, nodeId)

\* the loop of findNodeById over node.children, from child i on
findNodeByIdIn(children, i, nodeId) ==
    IF i > Len(children) THEN None
    ELSE IF IsSome(findNodeById(children[i], nodeId))
         THEN findNodeById(children[i], nodeId)
         ELSE findNodeByIdIn(children, i + 1, nodeId)

\* the node ids a caller asks for: ids of nodes of a file and ids no file holds
RequestedIds == {<<0>>, <<0, 1>>, <<0, 1, 1>>, <<0, 2>>, <<7>>}

\* nodes[nodeId].document of the nodes endpoint: a tree of at most maxNodes nodes,
\* which the service roots at the node asked for (or, should it answer with another
\* node, at a node of another id)
NodesResponses(nodeId, maxNodes) ==
    UNION {{RawTree(tree, rootId, shapeAt) : shapeAt \in [TreePaths(tree, rootId) -> RawShapes]} :
             tree \in UNION {TreeForests[n - 1] : n \in 1..maxNodes},
             rootId \in {nodeId, <<8>>}}

\* the minimal file structure built around the target node
wrappedDocument(target) ==
    [id |-> <<0>>, name |-> Some(name_Document), type |-> "DOCUMENT", visible |-> None,
     absoluteBoundingBox |-> None, backgroundColor |-> None, strokeWeight |-> None,
     characters |-> None, children |-> Some(<<target>>)]

\* the settled call: its arguments, the endpoint that supplied the document, and
\* the error thrown, if any
ParseCall(nodeId, fetch, threw, message) ==
    [nodeId |-> nodeId, fetch |-> fetch, threw |-> threw, message |-> message]

\* parseFile from "Parse components" on, the document being fetched
parseFetched(nodeId, fetch, document, rootNode) ==
    IF ~IsSome(rootNode)
    THEN [call |-> ParseCall(nodeId, fetch, TRUE,
                             "Failed to parse Figma file: Node with ID not found"),
          document |-> Some(document), components |-> None]
    ELSE [call |-> ParseCall(nodeId, fetch, FALSE, ""),
          document |-> Some(document), components |-> Some(parseNode(Get(rootNode)))]

\* parseFile: nodesResponse is the target the nodes endpoint gave (None when that
\* request failed or gave no such node), fileResponse the document the file endpoint
\* gave (None when that request failed)
parseFile(initialized, nodeId, nodesResponse, fileResponse) ==
    IF ~initialized
    THEN [call |-> ParseCall(nodeId, "none", TRUE,
                             "Failed to parse Figma file: Figma API not initialized"),
          document |-> None, components |-> None]
    ELSE IF IsSome(nodeId) /\ IsSome(nodesResponse)
    THEN parseFetched(nodeId, "nodes", wrappedDocument(Get(nodesResponse)),
                      findNodeById(wrappedDocument(Get(nodesResponse)), Get(nodeId)))
    ELSE IF ~IsSome(fileResponse)
    THEN [call |-> ParseCall(nodeId, "file", TRUE,
                             "Failed to parse Figma file: request failed"),
          document |-> None, components |-> None]
    ELSE parseFetched(nodeId, "file", Get(fileResponse),
                      IF IsSome(nodeId) THEN findNodeById(Get(fileResponse), Get(nodeId))
                      ELSE fileResponse)

\* the promise of parseFile settles
ParseFileSettles(parsed) ==
    /\ parseCall' = Some(parsed.call)
    /\ rawDocument' = parsed.document
    /\ parsedComponents' = parsed.components

\* parseFile(fileKeyOrUrl, accessToken, nodeId)
ParseFile ==
    /\ parseCall = None /\ parsedComponents = None
    /\ \E nodeId \in {None} \cup {Some(id) : id \in RequestedIds} :
          \/ \E initialized \in BOOLEAN, fileResponse \in {None} \cup
                    {Some(document) : document \in FigmaFiles(MaxFileNodes)} :
                ParseFileSettles(parseFile(initialized, nodeId, None, fileResponse))
          \/ /\ IsSome(nodeId)
             /\ \E target \in NodesResponses(Get(nodeId), MaxFileNodes - 1) :
                   ParseFileSettles(parseFile(TRUE, nodeId, Some(target), None))

----------------------------------------------------------------------------
(* CodeGenerator: the rule registry and getComponentMapping *)

\* the weights and thresholds of getComponentMapping
TypeWeight == 30
NameWeight == 40
MinConfidence == 20
MaxConfidence == 100

Rule(condition, action, weight) == [condition |-> condition, action |-> action, weight |-> weight]

\* the registry initializeComponentMappings builds
InitialComponentMappings ==
    <<[figmaType |-> "COMPONENT", figmaName |-> Some(str_button), antdComponent |-> "Button",
       confidence |-> 0,
       rules |-> <<Rule("name_contains_button", "increase_confidence", 50),
                   Rule("has_text_content", "increase_confidence", 20),
                   Rule("clickable_appearance", "increase_confidence", 30)>>],
      [figmaType |-> "FRAME", figmaName |-> Some(str_input), antdComponent |-> "Input",
       confidence |-> 0,
       rules |-> <<Rule("name_contains_input", "increase_confidence", 50),
                   Rule("has_border", "increase_confidence", 20),
                   Rule("rectangular_shape", "increase_confidence", 15)>>],
      [figmaType |-> "FRAME", figmaName |-> Some(str_card), antdComponent |-> "Card",
       confidence |-> 0,
       rules |-> <<Rule("name_contains_card", "increase_confidence", 50),
                   Rule("has_background", "increase_confidence", 20),
                   Rule("has_shadow", "increase_confidence", 25),
                   Rule("contains_multiple_elements", "increase_confidence", 15)>>],
      [figmaType |-> "TEXT", figmaName |-> None, antdComponent |-> "Typography.Text",
       confidence |-> 0,
       rules |-> <<Rule("is_text_node", "increase_confidence", 80),
                   Rule("small_font_size", "prefer_text", 20)>>],
      [figmaType |-> "FRAME", figmaName |-> None, antdComponent |-> "div",
       confidence |-> 0,
       rules |-> <<Rule("is_container", "use_div", 10)>>]>>

\* figmaNode.name?.toLowerCase().includes(sub) || false
nameContains(node, sub) == IsSome(node.name) /\ includes(toLowerCase(Get(node.name)), sub)

\* the truthiness of an optional array's length: !!a?.length
hasLength(o) == IsSome(o) /\ Len(Get(o)) > 0

evaluateRule(rule, node) ==
    CASE rule.condition = "name_contains_button" -> nameContains(node, str_button)
      [] rule.condition = "name_contains_input" -> nameContains(node, str_input)
      [] rule.condition = "name_contains_card" -> nameContains(node, str_card)
      [] rule.condition = "has_text_content" ->
            IsSome(node.content) /\ IsSome(Get(node.content).text)
                /\ Get(Get(node.content).text) /= ""
      [] rule.condition = "has_border" ->
            IsSome(node.styling) /\ IsSome(Get(node.styling).borderWidth)
                /\ Get(Get(node.styling).borderWidth) /= 0
      [] rule.condition = "has_background" ->
            \/ IsSome(node.styling) /\ IsSome(Get(node.styling).backgroundColor)
                   /\ Get(Get(node.styling).backgroundColor) /= <<>>
            \/ IsSome(node.styling) /\ hasLength(Get(node.styling).fills)
      [] rule.condition = "has_shadow" ->
            IsSome(node.styling) /\ hasLength(Get(node.styling).shadows)
      [] rule.condition = "is_text_node" -> node.type = "TEXT"
      [] rule.condition = "rectangular_shape" ->
            IsSome(node.layout) /\ Get(node.layout).width > Get(node.layout).height
      [] rule.condition = "contains_multiple_elements" ->
            IsSome(node.children) /\ Len(Get(node.children)) > 1
      [] OTHER -> FALSE

RECURSIVE rulesWeight(_, _, _)
\* the loop over mapping.rules, from index i on
rulesWeight(rules, node, i) ==
    IF i > Len(rules) THEN 0
    ELSE (IF evaluateRule(rules[i], node) THEN rules[i].weight ELSE 0)
         + rulesWeight(rules, node, i + 1)

\* the confidence getComponentMapping accumulates for one registry entry
accumulatedConfidence(mapping, node) ==
    LET nodeName == IF IsSome(node.name) THEN toLowerCase(Get(node.name)) ELSE <<>>
    IN (IF mapping.figmaType = node.type THEN TypeWeight ELSE 0)
       + (IF IsSome(mapping.figmaName) /\ includes(nodeName, Get(mapping.figmaName))
          THEN NameWeight ELSE 0)
       + rulesWeight(mapping.rules, node, 1)

\* confidence > 20
retainedAtThreshold(confidence) == confidence >= MinConfidence
retained(confidence) == confidence > MinConfidence

\* Math.min(confidence, 100)
uncapped(confidence) == confidence
capped(confidence) == Min(confidence, MaxConfidence)

RECURSIVE scoreMappings(_, _, _)
\* the loop over this.componentMappings, from index i on: the candidates pushed
scoreMappings(registry, node, i) ==
    IF i > Len(registry) THEN <<>>
    ELSE LET confidence == accumulatedConfidence(registry[i], node)
         IN (IF retained(confidence)
             THEN <<[registry[i] EXCEPT !.confidence = capped(confidence)]>>
             ELSE <<>>)
            \o scoreMappings(registry, node, i + 1)

\* the comparator of the sort: (a, b) => b.confidence - a.confidence
confidenceComparator(a, b) == b.confidence - a.confidence

RECURSIVE insertSorted(_, _), insertSortedLast(_, _), sortUnstable(_), sortStable(_)
\* x, which came later in the list, goes before the first element the comparator
\* puts after it, so elements that compare equal keep their order
insertSorted(sorted, x) ==
    IF sorted = <<>> THEN <<x>>
    ELSE IF confidenceComparator(sorted[1], x) > 0
         THEN <<x>> \o sorted
         ELSE <<sorted[1]>> \o insertSorted(Tail(sorted), x)

insertSortedLast(sorted, x) ==
    IF sorted = <<>> THEN <<x>>
    ELSE IF confidenceComparator(sorted[1], x) >= 0
         THEN <<x>> \o sorted
         ELSE <<sorted[1]>> \o insertSortedLast(Tail(sorted), x)

sortUnstable(list) ==
    IF list = <<>> THEN <<>>
    ELSE insertSortedLast(sortUnstable(SubSeq(list, 1, Len(list) - 1)), list[Len(list)])

\* Array.prototype.sort with the comparator: a stable sort
sortStable(list) ==
    IF list = <<>> THEN <<>>
    ELSE insertSorted(sortStable(SubSeq(list, 1, Len(list) - 1)), list[Len(list)])

getComponentMapping(registry, node) == sortStable(scoreMappings(registry, node, 1))

----------------------------------------------------------------------------
(* CodeGenerator: the nodes handed to getComponentMapping *)

\* the most getComponentMapping calls made on the node under study
MaxCalls == 2
\* the most calls made on other nodes in between
MaxOtherCalls == 1

hex_white == <<"#", "f", "f", "f", "f", "f", "f">>

NoStyling ==
    [backgroundColor |-> None, borderColor |-> None, borderWidth |-> None, fills |-> None,
     shadows |-> None]

NodeStylings ==
    {None, Some(NoStyling),
     Some([NoStyling EXCEPT !.borderWidth = Some(1)]),
     Some([NoStyling EXCEPT !.borderWidth = Some(0), !.fills = Some(<<>>)]),
     Some([NoStyling EXCEPT !.backgroundColor = Some(hex_white)]),
     Some([NoStyling EXCEPT !.fills = Some(<<[type |-> "SOLID"]>>),
                            !.shadows = Some(<<[x |-> 0, y |-> 2, blur |-> 4,
                                                color |-> "#000000"]>>)])}

NodeLayouts ==
    {None, Some([width |-> 120, height |-> 32, x |-> 0, y |-> 0, flexDirection |-> None]),
     Some([width |-> 32, height |-> 120, x |-> 0, y |-> 0, flexDirection |-> None])}

NodeContents == {None, Some([text |-> Some("Submit")]), Some([text |-> None])}

NodeNames == {None, Some(name_PrimaryButton), Some(name_TextInput), Some(name_Card),
              Some(name_Box), Some(name_InputButton)}

NodeTypes == {"COMPONENT", "FRAME", "TEXT", "RECTANGLE"}

LeafNode(id) ==
    [id |-> id, name |-> Some(name_Box), type |-> "RECTANGLE", properties |-> Some(<<>>),
     layout |-> None, styling |-> None, content |-> None, children |-> None]

NodeChildren == {None, Some(<<LeafNode(<<0, 1>>), LeafNode(<<0, 2>>)>>)}

\* the nodes a caller may hand to getComponentMapping (the tool passes any object)
MapNodes ==
    [id : {<<0>>}, name : NodeNames, type : NodeTypes, properties : {Some(<<>>)},
     layout : NodeLayouts, styling : NodeStylings, content : NodeContents,
     children : NodeChildren]

\* the nodes of the calls made in between: one of every type and name
OtherNodes ==
    {node \in MapNodes : /\ node.layout = None /\ node.styling = None
                         /\ node.content = None /\ node.children = None}

----------------------------------------------------------------------------
(* CodeGenerator: the mapping calls *)

\* getComponentMapping(figmaNode): the registry is read, the result is a new array
GetComponentMapping ==
    /\ IsSome(figmaNode)
    /\ Len(mappingCalls) < MaxCalls
    /\ mappingCalls' = Append(mappingCalls, getComponentMapping(componentMappings, Get(figmaNode)))
    /\ UNCHANGED <<componentMappings, figmaNode, otherCalls>>

\* a call that sorts the registry itself instead of the candidates it collected
OtherMappingCallSortingRegistry ==
    /\ IsSome(figmaNode)
    /\ otherCalls < MaxOtherCalls
    /\ \E node \in OtherNodes :
         componentMappings' =
            sortStable([i \in 1..Len(componentMappings) |->
                          [componentMappings[i] EXCEPT
                             !.confidence = accumulatedConfidence(componentMappings[i], node)]])
    /\ otherCalls' = otherCalls + 1
    /\ UNCHANGED <<figmaNode, mappingCalls>>

\* getComponentMapping(node) on any other node, between the calls on figmaNode
OtherMappingCall ==
    /\ IsSome(figmaNode)
    /\ otherCalls < MaxOtherCalls
    /\ \E node \in OtherNodes : componentMappings' = componentMappings
    /\ otherCalls' = otherCalls + 1
    /\ UNCHANGED <<figmaNode, mappingCalls>>

----------------------------------------------------------------------------
(* AntdAnalyzer *)

\* componentName.toLowerCase(), the name of the component's directory
DirectoryOf(componentName) ==
    CASE componentName = "Button" -> "button"
      [] componentName = "Input" -> "input"
      [] componentName = "Card" -> "card"
      [] componentName = "Typography.Text" -> "typography.text"
      [] componentName = "div" -> "div"

\* determineCategory
determineCategory(componentName) ==
    CASE DirectoryOf(componentName) = "button" -> "General"
      [] DirectoryOf(componentName) = "input" -> "Data Entry"
      [] DirectoryOf(componentName) = "card" -> "Data Display"
      [] OTHER -> "Other"

\* the key of a cache entry: `${componentName}-${includeExamples}`
cacheKey(componentName, includeExamples) == <<componentName, includeExamples>>

\* analyzeComponent without the test that the component's directory exists
analyzeComponentUnchecked(cache, dirs, componentName, includeExamples) ==
    LET key == cacheKey(componentName, includeExamples)
        component == [name |-> componentName,
                      category |-> determineCategory(componentName),
                      withExamples |-> includeExamples]
    IN IF key \in DOMAIN cache
       THEN [component |-> Some(cache[key]), cache |-> cache]
       ELSE [component |-> Some(component), cache |-> cache @@ (key :> component)]

\* analyzeComponent: the component (or null) and the cache after the call
analyzeComponent(cache, dirs, componentName, includeExamples) ==
    LET key == cacheKey(componentName, includeExamples) IN
    IF key \in DOMAIN cache
    THEN [component |-> Some(cache[key]), cache |-> cache]
    ELSE IF DirectoryOf(componentName) \notin dirs
    THEN [component |-> None, cache |-> cache]
    ELSE LET component == [name |-> componentName,
                           category |-> determineCategory(componentName),
                           withExamples |-> includeExamples]
         IN [component |-> Some(component), cache |-> cache @@ (key :> component)]

RECURSIVE analyzeComponents(_, _, _, _, _)
\* analyzeComponents: the components found for the names from index i on
analyzeComponents(cache, dirs, componentNames, includeExamples, i) ==
    IF i > Len(componentNames) THEN [components |-> <<>>, cache |-> cache]
    ELSE LET one == analyzeComponent(cache, dirs, componentNames[i], includeExamples)
             rest == analyzeComponents(one.cache, dirs, componentNames, includeExamples, i + 1)
         IN [components |-> one.component \o rest.components, cache |-> rest.cache]

----------------------------------------------------------------------------
(* AntdAnalyzer: analyzeComponent calls in flight together *)

\* An analyzeComponent call runs without interruption from one await to the next, and
\* other calls may run in between: it tests the cache, awaits access(componentPath),
\* awaits the reads that build the component, and then sets the cache entry.

\* the largest number of analyzeComponent calls
MaxAnalyzeCalls == 3

\* the component names asked for
AnalyzedNames == {"Button", "Card"}

\* a cache test that never finds an entry
neverCached(cache, key) == FALSE

\* this.componentsCache.has(cacheKey)
cacheHas(cache, key) == key \in DOMAIN cache

\* a set that drops the entries of the other keys
cacheSetDroppingOthers(cache, key, component) == [k \in {key} |-> component]

\* this.componentsCache.set(cacheKey, component)
cacheSet(cache, key, component) ==
    [k \in DOMAIN cache \cup {key} |-> IF k = key THEN component ELSE cache[k]]

\* a lookup that stores its negative result
cacheSetNull(cache, key) == cacheSet(cache, key, None)

\* return null: the cache as the call leaves it
cacheAfterNull(cache, key) == cache

\* the position and the result of a call
AnalyzeCall(componentName, includeExamples, pc, result, fromCache) ==
    [componentName |-> componentName, includeExamples |-> includeExamples, pc |-> pc,
     result |-> result, fromCache |-> fromCache]

\* analyzeComponent is called: the cache test, and on a miss the call of access
AnalyzeComponentStarts ==
    /\ Len(analyzerCalls) < MaxAnalyzeCalls
    /\ \E componentName \in AnalyzedNames, includeExamples \in BOOLEAN :
          analyzerCalls' =
              Append(analyzerCalls,
                     IF cacheHas(componentsCache, cacheKey(componentName, includeExamples))
                     THEN AnalyzeCall(componentName, includeExamples, "done",
                                      Some(componentsCache[cacheKey(componentName,
                                                                    includeExamples)]),
                                      TRUE)
                     ELSE AnalyzeCall(componentName, includeExamples, "access", None, FALSE))
    /\ UNCHANGED <<componentsCache, builtObjects, antdDirs>>

\* access(componentPath) settles: the call returns null, or goes on to the reads
AnalyzeComponentAccessSettles ==
    /\ \E c \in 1..Len(analyzerCalls) :
          /\ analyzerCalls[c].pc = "access"
          /\ analyzerCalls' =
                [analyzerCalls EXCEPT ![c].pc =
                    IF DirectoryOf(analyzerCalls[c].componentName) \in antdDirs
                    THEN "build" ELSE "done"]
          /\ componentsCache' =
                IF DirectoryOf(analyzerCalls[c].componentName) \in antdDirs
                THEN componentsCache
                ELSE cacheAfterNull(componentsCache,
                                    cacheKey(analyzerCalls[c].componentName,
                                             analyzerCalls[c].includeExamples))
    /\ UNCHANGED <<builtObjects, antdDirs>>

\* the reads are over: the component object is made, cached and returned
AnalyzeComponentBuilt ==
    /\ \E c \in 1..Len(analyzerCalls) :
          /\ analyzerCalls[c].pc = "build"
          /\ componentsCache' =
                cacheSet(componentsCache,
                         cacheKey(analyzerCalls[c].componentName,
                                  analyzerCalls[c].includeExamples),
                         [name |-> analyzerCalls[c].componentName,
                          category |-> determineCategory(analyzerCalls[c].componentName),
                          withExamples |-> analyzerCalls[c].includeExamples,
                          object |-> builtObjects + 1])
          /\ analyzerCalls' =
                [analyzerCalls EXCEPT
                    ![c].pc = "done",
                    ![c].result = Some([name |-> analyzerCalls[c].componentName,
                                        category |->
                                            determineCategory(analyzerCalls[c].componentName),
                                        withExamples |-> analyzerCalls[c].includeExamples,
                                        object |-> builtObjects + 1])]
    /\ builtObjects' = builtObjects + 1
    /\ UNCHANGED antdDirs

\* one of the reads throws: the outer catch logs the error and the call returns null
AnalyzeComponentBuildFails ==
    /\ \E c \in 1..Len(analyzerCalls) :
          /\ analyzerCalls[c].pc = "build"
          /\ analyzerCalls' = [analyzerCalls EXCEPT ![c].pc = "done"]
          /\ componentsCache' =
                cacheAfterNull(componentsCache,
                               cacheKey(analyzerCalls[c].componentName,
                                        analyzerCalls[c].includeExamples))
    /\ UNCHANGED <<builtObjects, antdDirs>>

\* the directories under antd/components are not the program's: one of them appears
\* or goes away between two steps of the analyzer
CatalogChanges ==
    /\ \E directory \in {DirectoryOf(name) : name \in AnalyzedNames} :
          antdDirs' = IF directory \in antdDirs
                      THEN antdDirs \ {directory} ELSE antdDirs \cup {directory}
    /\ UNCHANGED <<componentsCache, builtObjects, analyzerCalls>>

----------------------------------------------------------------------------
(* CodeGenerator: processComponent and what it calls *)

\* a value returned, or an exception thrown with a message
Returned(value) == [threw |-> FALSE, value |-> value]
Thrown(message) == [threw |-> TRUE, message |-> message]

Prop(key, value) == [key |-> key, value |-> value]

\* figmaComponent.content?.text, when truthy
textOf(component) ==
    IF IsSome(component.content) /\ IsSome(Get(component.content).text)
          /\ Get(Get(component.content).text) /= ""
    THEN Get(component.content).text ELSE None

\* the small-size and large-size thresholds of a Button's height
SmallHeight == 24
LargeHeight == 40

\* a size rule whose thresholds belong to the medium tier
buttonSizeStrict(height) ==
    IF height < SmallHeight THEN "small"
    ELSE IF height > LargeHeight THEN "large" ELSE "middle"

\* the size generateProps gives a Button of that height
buttonSize(height) ==
    IF height <= SmallHeight THEN "small"
    ELSE IF height >= LargeHeight THEN "large" ELSE "middle"

generateProps(component, antdComponent) ==
    LET text == textOf(component)
        textProps ==
            IF IsSome(text)
            THEN IF antdComponent.name \in {"Button", "Typography"}
                 THEN <<Prop("children", Get(text))>>
                 ELSE IF antdComponent.name = "Input"
                      THEN <<Prop("placeholder", Get(text))>> ELSE <<>>
            ELSE <<>>
        sizeProps ==
            IF IsSome(component.layout) /\ antdComponent.name = "Button"
            THEN <<Prop("size", buttonSize(Get(component.layout).height))>>
            ELSE <<>>
        typeProps ==
            IF IsSome(component.styling) /\ antdComponent.name = "Button"
            THEN LET styling == Get(component.styling) IN
                 IF IsSome(styling.fills)
                       /\ \E k \in 1..Len(Get(styling.fills)) : Get(styling.fills)[k].type = "SOLID"
                 THEN <<Prop("type", "primary")>>
                 ELSE IF IsSome(styling.borderWidth) /\ Get(styling.borderWidth) /= 0
                      THEN <<Prop("type", "default")>> ELSE <<>>
            ELSE <<>>
    IN IF ~IsSome(component.properties)
       THEN Thrown("Cannot read properties of undefined (reading 'some')")
       ELSE LET properties == Get(component.properties)
                hidden == \E k \in 1..Len(properties) :
                             properties[k].name = "visible" /\ properties[k].value = FALSE
            IN Returned(textProps \o sizeProps \o typeProps
                        \o (IF hidden THEN <<Prop("style", <<Prop("display", "none")>>)>>
                            ELSE <<>>))

generateStyling(component) ==
    IF IsSome(component.styling)
    THEN LET styling == Get(component.styling)
             style ==
                (IF IsSome(styling.backgroundColor) /\ Get(styling.backgroundColor) /= <<>>
                 THEN <<Prop("backgroundColor", Get(styling.backgroundColor))>> ELSE <<>>)
                \o (IF IsSome(styling.borderColor) /\ IsSome(styling.borderWidth)
                       /\ Get(styling.borderWidth) /= 0
                    THEN <<Prop("border", [width |-> Get(styling.borderWidth),
                                           color |-> Get(styling.borderColor)])>> ELSE <<>>)
                \o (IF hasLength(styling.shadows)
                    THEN <<Prop("boxShadow", Get(styling.shadows)[1])>> ELSE <<>>)
         IN [style |-> IF Len(style) > 0 THEN Some(style) ELSE None]
    ELSE [style |-> None]

\* the warnings processComponent and generateComponent push
NoMappingWarning(component) == [kind |-> "No suitable Ant Design component found for", subject |-> component.name]
NotAnalyzedWarning(mapping) == [kind |-> "Could not analyze Ant Design component", subject |-> mapping.antdComponent]
FailedWarning(component, message) ==
    [kind |-> "Failed to process component", subject |-> component.name, message |-> message]
GenerationFailedWarning(message) == [kind |-> "Code generation failed", message |-> message]

\* a null in a list of components
NullComponent == [isNull |-> TRUE]

\* processComponent giving up a node as soon as one of its children gave no config
processComponentReturnAllOrNothing(component, antdComponent, props, kids) ==
    IF kids.threw
    THEN [threw |-> FALSE, message |-> "", config |-> None,
          st |-> [kids.st EXCEPT !.warnings =
                     Append(@, FailedWarning(component, kids.message))]]
    ELSE IF IsSome(component.children) /\ Len(kids.configs) < Len(Get(component.children))
         THEN [threw |-> FALSE, message |-> "", config |-> None, st |-> kids.st]
         ELSE [threw |-> FALSE, message |-> "",
               config |-> Some([component |-> antdComponent,
                                props |-> props,
                                children |-> IF Len(kids.configs) > 0
                                             THEN Some(kids.configs) ELSE None,
                                styling |-> generateStyling(component)]),
               st |-> kids.st]

\* the return of processComponent; an exception that left a child's processComponent
\* is handled by the catch
processComponentReturn(component, antdComponent, props, kids) ==
    IF kids.threw
    THEN [threw |-> FALSE, message |-> "", config |-> None,
          st |-> [kids.st EXCEPT !.warnings =
                     Append(@, FailedWarning(component, kids.message))]]
    ELSE [threw |-> FALSE, message |-> "",
          config |-> Some([component |-> antdComponent,
                           props |-> props,
                           children |-> IF Len(kids.configs) > 0
                                        THEN Some(kids.configs) ELSE None,
                           styling |-> generateStyling(component)]),
          st |-> kids.st]

\* what processComponent and the loops over components hand back: the config (or
\* null) or the configs, the result's warnings and mappings and the analyzer's cache
\* (st), and the exception that leaves the method, if any
Processed(config, st) == [threw |-> FALSE, message |-> "", config |-> config, st |-> st]
ProcessedList(configs, st) == [threw |-> FALSE, message |-> "", configs |-> configs, st |-> st]
withWarning(st, warning) == [st EXCEPT !.warnings = Append(@, warning)]

RECURSIVE processComponent(_, _, _, _), processChildren(_, _, _, _, _, _)
RECURSIVE processComponentMapped(_, _, _, _, _), processComponentAnalyzed(_, _, _, _, _, _)
RECURSIVE processComponentProps(_, _, _, _, _, _), processChildrenNext(_, _, _, _, _, _)

\* processComponent
processComponent(component, st, registry, dirs) ==
    IF component = NullComponent
    THEN \* figmaNode.type throws, and so does component.name in the catch
         [threw |-> TRUE, message |-> "Cannot read properties of null (reading 'name')",
          config |-> None, st |-> st]
    ELSE processComponentMapped(component, st, registry, dirs,
                                getComponentMapping(registry, component))

\* processComponent, once the mappings are known
processComponentMapped(component, st, registry, dirs, mappings) ==
    IF Len(mappings) = 0
    THEN Processed(None, withWarning(st, NoMappingWarning(component)))
    ELSE processComponentAnalyzed(component,
                                  [st EXCEPT !.mappings = Append(@, mappings[1])],
                                  registry, dirs, mappings[1],
                                  analyzeComponents(st.cache, dirs,
                                                    <<mappings[1].antdComponent>>, TRUE, 1))

\* processComponent, once the catalog has been asked for the best mapping's component
processComponentAnalyzed(component, st, registry, dirs, bestMapping, analyzed) ==
    IF Len(analyzed.components) = 0
    THEN Processed(None, withWarning([st EXCEPT !.cache = analyzed.cache],
                                     NotAnalyzedWarning(bestMapping)))
    ELSE processComponentProps(component, [st EXCEPT !.cache = analyzed.cache],
                               registry, dirs, analyzed.components[1],
                               generateProps(component, analyzed.components[1]))

\* processComponent, from the children loop on; an exception thrown by
\* generateProps is handled by the catch
processComponentProps(component, st, registry, dirs, antdComponent, props) ==
    IF props.threw
    THEN Processed(None, withWarning(st, FailedWarning(component, props.message)))
    ELSE processComponentReturn(component, antdComponent, props.value,
                                IF IsSome(component.children)
                                THEN processChildren(Get(component.children), 1, <<>>,
                                                     st, registry, dirs)
                                ELSE ProcessedList(<<>>, st))

\* the loop over a list of components, from index i on; acc holds the configs pushed
processChildren(components, i, acc, st, registry, dirs) ==
    IF i > Len(components) THEN ProcessedList(acc, st)
    ELSE processChildrenNext(components, i, acc, registry, dirs,
                             processComponent(components[i], st, registry, dirs))

\* the loop ending at the first component that gave no config
processChildrenNextAborting(components, i, acc, registry, dirs, one) ==
    IF one.threw
    THEN [threw |-> TRUE, message |-> one.message, configs |-> acc, st |-> one.st]
    ELSE IF IsSome(one.config)
         THEN processChildren(components, i + 1, Append(acc, Get(one.config)),
                              one.st, registry, dirs)
         ELSE ProcessedList(acc, one.st)

\* the rest of the loop, once components[i] has been processed
processChildrenNext(components, i, acc, registry, dirs, one) ==
    IF one.threw
    THEN [threw |-> TRUE, message |-> one.message, configs |-> acc, st |-> one.st]
    ELSE processChildren(components, i + 1,
                         IF IsSome(one.config) THEN Append(acc, Get(one.config)) ELSE acc,
                         one.st, registry, dirs)

\* processComponents: the same loop over the root components
processComponents(components, st, registry, dirs) ==
    processChildren(components, 1, <<>>, st, registry, dirs)

----------------------------------------------------------------------------
(* CodeGenerator: code emission *)

\* one attribute of an emitted tag: key="value", a bare key, or key={expression}
Attribute(key, form, value) == [key |-> key, form |-> form, value |-> value]

\* typeof value, for the values a props object holds here: style is an object,
\* disabled and loading are booleans, tabIndex is a number, the other properties
\* are strings
typeOfValue(prop) ==
    CASE prop.key = "style" -> "object"
      [] prop.key \in {"disabled", "loading"} -> "boolean"
      [] prop.key = "tabIndex" -> "number"
      [] OTHER -> "string"

RECURSIVE propAttributesQuoted(_, _)
\* a loop that writes every value between quotes
propAttributesQuoted(props, i) ==
    IF i > Len(props) THEN <<>>
    ELSE (IF props[i].key = "children" THEN <<>>
          ELSE <<Attribute(props[i].key, "quoted", props[i].value)>>)
         \o propAttributesQuoted(props, i + 1)

RECURSIVE propAttributes(_, _)
\* the loop of generateComponentJSX over Object.entries(config.props), from index i on
propAttributes(props, i) ==
    IF i > Len(props) THEN <<>>
    ELSE (IF props[i].key = "children" THEN <<>>
          ELSE IF typeOfValue(props[i]) = "string"
               THEN <<Attribute(props[i].key, "quoted", props[i].value)>>
               ELSE IF typeOfValue(props[i]) = "boolean"
                    THEN IF props[i].value
                         THEN <<Attribute(props[i].key, "bare", TRUE)>>
                         ELSE <<Attribute(props[i].key, "expression", FALSE)>>
                    ELSE <<Attribute(props[i].key, "expression", props[i].value)>>)
         \o propAttributes(props, i + 1)

\* config.props.children when it is a non-empty string
textChildren(config) ==
    LET found == SelectSeq(config.props, LAMBDA prop : prop.key = "children")
    IN IF Len(found) > 0 /\ found[1].value /= "" THEN Some(found[1].value) ELSE None

RECURSIVE generateComponentJSX(_)
\* generateComponentJSX: the emitted element (indentation is not modelled)
generateComponentJSX(config) ==
    LET attributes ==
            propAttributes(config.props, 1)
            \o (IF IsSome(config.styling.style)
                THEN <<Attribute("style", "expression", Get(config.styling.style))>> ELSE <<>>)
        hasTextChildren == IsSome(textChildren(config))
        hasComponentChildren == IsSome(config.children) /\ Len(Get(config.children)) > 0
    IN [tag |-> config.component.name,
        attributes |-> attributes,
        selfClosing |-> ~(hasTextChildren \/ hasComponentChildren),
        text |-> textChildren(config),
        children |-> IF hasComponentChildren
                     THEN [k \in 1..Len(Get(config.children)) |->
                              generateComponentJSX(Get(config.children)[k])]
                     ELSE <<>>]

\* the properties a props object may hold: one of each typeof the loop tells apart
PropPool ==
    <<Prop("children", "Go"), Prop("size", "small"), Prop("disabled", TRUE),
      Prop("loading", FALSE), Prop("tabIndex", 0),
      Prop("style", <<Prop("display", "none")>>)>>

\* the largest number of entries of a props object
MaxProps == 3

\* Object.entries(props): any insertion order of distinct keys, as positions of PropPool
PropOrders(maxProps) ==
    UNION {{order \in [1..n -> 1..Len(PropPool)] :
               \A i, j \in 1..n : i /= j => order[i] /= order[j]} :
           n \in 0..maxProps}

\* the GeneratedComponentConfig with the properties at those positions
JsxConfig(order, style) ==
    [component |-> [name |-> "Button"],
     props |-> [i \in 1..Len(order) |-> PropPool[order[i]]],
     styling |-> [style |-> style],
     children |-> None]

\* generateComponentJSX(config, indent) for one component configuration
EmitComponentJSX ==
    /\ jsxElement = None
    /\ \E order \in PropOrders(MaxProps), style \in {None, Some(<<Prop("opacity", "0.5")>>)} :
          /\ jsxConfig' = Some(JsxConfig(order, style))
          /\ jsxElement' = Some(generateComponentJSX(JsxConfig(order, style)))

\* collectComponents that does not descend into config.children
collectOwnName(config) == {config.component.name}

RECURSIVE collectComponents(_)
\* collectComponents of generateImportStatements: the component names of a config tree
collectComponents(config) ==
    {config.component.name}
    \cup (IF IsSome(config.children)
          THEN UNION {collectComponents(Get(config.children)[k]) :
                        k \in 1..Len(Get(config.children))}
          ELSE {})

\* the order of Array.prototype.sort() on the component names (UTF-16 code units)
NameOrder == <<"Button", "Card", "Input", "Typography.Text", "div">>

\* Array.from(antdComponents).sort()
sortedNames(names) == SelectSeq(NameOrder, LAMBDA name : name \in names)

generateImportStatements(configs) ==
    <<[module |-> "react", default |-> Some("React"), named |-> <<>>],
      [module |-> "antd", default |-> None,
       named |-> sortedNames(UNION {collectComponents(configs[k]) : k \in 1..Len(configs)})]>>

\* generateReactCode answering an empty list of configs with the error component
generateReactCodeRejectingEmpty(componentName, configs, outputFormat) ==
    IF Len(configs) = 0
    THEN [kind |-> "error", componentName |-> componentName,
          typed |-> outputFormat = "typescript",
          importStatements |-> <<>>, description |-> "No components found in Figma data"]
    ELSE [kind |-> "component", componentName |-> componentName,
          typed |-> outputFormat = "typescript",
          importStatements |-> generateImportStatements(configs),
          elements |-> [k \in 1..Len(configs) |-> generateComponentJSX(configs[k])]]

\* generateReactCode, as formatted by formatCode: the parts of the emitted module
generateReactCode(componentName, configs, outputFormat) ==
    [kind |-> "component",
     componentName |-> componentName,
     typed |-> outputFormat = "typescript",
     importStatements |-> generateImportStatements(configs),
     elements |-> [k \in 1..Len(configs) |-> generateComponentJSX(configs[k])]]

generateErrorComponent(componentName, error, outputFormat) ==
    [kind |-> "error",
     componentName |-> componentName,
     typed |-> outputFormat = "typescript",
     importStatements |-> <<[module |-> "react", default |-> Some("React"), named |-> <<>>],
                            [module |-> "antd", default |-> None, named |-> <<"Alert">>]>>,
     description |-> error]

generateImports(outputFormat) ==
    <<"react", "antd">> \o (IF outputFormat = "typescript" THEN <<"@types/react">> ELSE <<>>)

----------------------------------------------------------------------------
(* CodeGenerator: generateComponent *)

\* the result object generateComponent starts from
EmptyResult ==
    [code |-> [kind |-> "empty"], imports |-> <<"React">>,
     dependencies |-> <<"react", "antd">>, warnings |-> <<>>, mappings |-> <<>>]

\* the try block of generateComponent after processComponents: the result it
\* completes, or what it throws
generateComponentCode(config, result, processed) ==
    IF processed.threw
    THEN [threw |-> TRUE, message |-> processed.message, cache |-> processed.st.cache,
          result |-> [result EXCEPT !.warnings = processed.st.warnings,
                                    !.mappings = processed.st.mappings]]
    ELSE [threw |-> FALSE, message |-> "", cache |-> processed.st.cache,
          result |-> [result EXCEPT
                        !.warnings = processed.st.warnings,
                        !.mappings = processed.st.mappings,
                        !.code = generateReactCode(config.componentName, processed.configs,
                                                   config.outputFormat),
                        !.imports = generateImports(config.outputFormat)]]

\* the try block of generateComponent
generateComponentBody(config, result, cache, registry, dirs) ==
    IF ~IsSome(config.figmaData.components)
    THEN [threw |-> TRUE, result |-> result, cache |-> cache,
          message |-> "Cannot read properties of undefined (reading 'length')"]
    ELSE IF Len(Get(config.figmaData.components)) = 0
    THEN [threw |-> TRUE, result |-> result, cache |-> cache,
          message |-> "No components found in Figma data"]
    ELSE generateComponentCode(config, result,
                               processComponents(Get(config.figmaData.components),
                                                 [warnings |-> result.warnings,
                                                  mappings |-> result.mappings,
                                                  cache |-> cache],
                                                 registry, dirs))

\* generateComponent without its catch: what the try block throws leaves the method
generateComponentUncaught(config, cache, registry, dirs) ==
    generateComponentBody(config, EmptyResult, cache, registry, dirs)

\* the catch block of generateComponent, and its return
generateComponentCatch(config, tried) ==
    IF tried.threw
    THEN [threw |-> FALSE, message |-> "", cache |-> tried.cache,
          result |-> [tried.result EXCEPT
                        !.warnings = Append(@, GenerationFailedWarning(tried.message)),
                        !.code = generateErrorComponent(config.componentName,
                                                        tried.message, config.outputFormat)]]
    ELSE tried

\* generateComponent: try, catch and return
generateComponent(config, cache, registry, dirs) ==
    generateComponentCatch(config, generateComponentBody(config, EmptyResult, cache,
                                                         registry, dirs))

----------------------------------------------------------------------------
(* CodeGenerator: the configurations handed to generateComponent *)

hex_grey == <<"#", "c", "c", "c", "c", "c", "c">>

\* The attributes of a component, without its id and its children.  The tool passes
\* figmaData as received, so a component may lack a field ParsedComponent requires.
GenShapes ==
    {[name |-> Some(name_PrimaryButton), type |-> "COMPONENT", properties |-> Some(<<>>),
      layout |-> Some([width |-> 120, height |-> 32, x |-> 0, y |-> 0, flexDirection |-> None]),
      styling |-> Some([NoStyling EXCEPT !.fills = Some(<<[type |-> "SOLID"]>>)]),
      content |-> Some([text |-> Some("Submit")])],
     [name |-> Some(name_TextInput), type |-> "FRAME",
      properties |-> Some(<<[name |-> "visible", value |-> FALSE, type |-> "boolean"]>>),
      layout |-> Some([width |-> 120, height |-> 32, x |-> 0, y |-> 0, flexDirection |-> None]),
      styling |-> Some([NoStyling EXCEPT !.borderWidth = Some(1), !.borderColor = Some(hex_grey),
                                         !.backgroundColor = Some(hex_white)]),
      content |-> None],
     [name |-> Some(name_Card), type |-> "FRAME",
      properties |-> Some(<<[name |-> "visible", value |-> TRUE, type |-> "boolean"]>>),
      layout |-> Some([width |-> 32, height |-> 120, x |-> 0, y |-> 0, flexDirection |-> None]),
      styling |-> Some(NoStyling), content |-> None],
     [name |-> Some(name_Label), type |-> "TEXT", properties |-> Some(<<>>),
      layout |-> Some([width |-> 120, height |-> 32, x |-> 0, y |-> 0, flexDirection |-> None]),
      styling |-> Some(NoStyling), content |-> Some([text |-> Some("Submit")])],
     [name |-> Some(name_Box), type |-> "RECTANGLE", properties |-> Some(<<>>),
      layout |-> None, styling |-> None, content |-> None],
     [name |-> Some(name_PrimaryButton), type |-> "COMPONENT", properties |-> None,
      layout |-> None, styling |-> None, content |-> None],
     NullComponent}

RECURSIVE GenTree(_, _, _)
\* the component tree of this shape whose node at each path has the attributes assigned
GenTree(tree, id, shapeAt) ==
    IF shapeAt[id] = NullComponent THEN NullComponent ELSE
    [id |-> id, name |-> shapeAt[id].name, type |-> shapeAt[id].type,
     properties |-> shapeAt[id].properties, layout |-> shapeAt[id].layout,
     styling |-> shapeAt[id].styling, content |-> shapeAt[id].content,
     children |-> IF tree = <<>> THEN None
                  ELSE Some([i \in 1..Len(tree) |-> GenTree(tree[i], Append(id, i), shapeAt)])]

ForestPaths(forest) == UNION {TreePaths(forest[k], <<k>>) : k \in 1..Len(forest)}

\* the lists of root components of at most maxNodes nodes in all
GenForests(maxNodes) ==
    UNION {{[k \in 1..Len(forest) |-> GenTree(forest[k], <<k>>, shapeAt)] :
               shapeAt \in [ForestPaths(forest) -> GenShapes]} :
             forest \in UNION {TreeForests[n] : n \in 0..maxNodes}}

\* the configurations: figmaData.components is missing, or a list of components
GenConfigs(maxNodes) ==
    [figmaData : {[components |-> None]} \cup
                 {[components |-> Some(forest)] : forest \in GenForests(maxNodes)},
     componentName : {"LoginForm"},
     outputFormat : {"typescript"},
     includeStyles : {TRUE}]

\* the largest number of nodes of a single component tree handed to generateComponent
MaxDeepNodes == 4

\* the attributes of the nodes of the deeper trees: a button, a rectangle no rule
\* matches, and a component that lacks its properties
DeepShapes ==
    {shape \in GenShapes \ {NullComponent} :
        \/ shape.name = Some(name_PrimaryButton)
        \/ shape.name = Some(name_Box)}

\* the configurations whose figmaData.components holds one tree of at most maxNodes nodes
DeepConfigs(maxNodes) ==
    UNION {{[figmaData |-> [components |-> Some(<<GenTree(tree, <<1>>, shapeAt)>>)],
             componentName |-> "LoginForm", outputFormat |-> "typescript",
             includeStyles |-> TRUE] :
               shapeAt \in [TreePaths(tree, <<1>>) -> DeepShapes]} :
             tree \in UNION {TreeForests[n - 1] : n \in 1..maxNodes}}

\* what may exist under antd/components
Catalogs == {{}, {"button"}, {"button", "input", "card"}}

----------------------------------------------------------------------------
(* CodeGenerator: the generateComponent call *)

\* the promise of generateComponent settles: it resolves with the result or rejects
GenerateComponentSettles(config, call) ==
    /\ genConfig' = Some(config)
    /\ genOutcome' = IF call.threw THEN "threw" ELSE "returned"
    /\ genResult' = IF call.threw THEN None ELSE Some(call.result)
    /\ componentsCache' = call.cache

\* generateComponent(config)
GenerateComponent ==
    /\ genOutcome = "idle"
    /\ \E config \in GenConfigs(MaxGenNodes) \cup DeepConfigs(MaxDeepNodes) :
         GenerateComponentSettles(config,
                                  generateComponent(config, componentsCache,
                                                    componentMappings, antdDirs))
    /\ UNCHANGED <<componentMappings, antdDirs>>

\* the largest height of the box of a button
MaxHeight == 48

\* a configuration whose only component is a button with a box of that height, with or
\* without a label
SizedButton(height, text) ==
    [figmaData |-> [components |-> Some(<<
        [id |-> <<1>>, name |-> Some(name_PrimaryButton), type |-> "COMPONENT",
         properties |-> Some(<<>>),
         layout |-> Some([width |-> 120, height |-> height, x |-> 0, y |-> 0,
                          flexDirection |-> None]),
         styling |-> Some(NoStyling), content |-> Some([text |-> text]),
         children |-> None]>>)],
     componentName |-> "LoginForm", outputFormat |-> "typescript", includeStyles |-> TRUE]

\* generateComponent(config) for a button of some height
GenerateSizedButton ==
    /\ genOutcome = "idle"
    /\ \E height \in 0..MaxHeight, text \in {None, Some("Submit")} :
         GenerateComponentSettles(SizedButton(height, text),
                                  generateComponent(SizedButton(height, text), componentsCache,
                                                    componentMappings, antdDirs))
    /\ UNCHANGED <<componentMappings, antdDirs>>

\* generate_react_code on what parse_figma_design returned: figmaData.components is
\* the list parseFile built
GenerateParsed ==
    /\ genOutcome = "idle"
    /\ IsSome(parsedComponents)
    /\ GenerateComponentSettles(
          [figmaData |-> [components |-> parsedComponents], componentName |-> "LoginForm",
           outputFormat |-> "typescript", includeStyles |-> TRUE],
          generateComponent([figmaData |-> [components |-> parsedComponents],
                             componentName |-> "LoginForm",
                             outputFormat |-> "typescript", includeStyles |-> TRUE],
                            componentsCache, componentMappings, antdDirs))
    /\ UNCHANGED <<componentMappings, antdDirs>>

----------------------------------------------------------------------------
(* CodeValidator: source texts *)

\* A source text is a list of header lines (import statements and component
\* declarations, none of which holds a "<") followed by a body: the sequence of the
\* lexemes of the JSX text.  A word is a maximal run of \w characters; an attribute
\* is name="value" or name={value}.
Lt == [kind |-> "<"]
Gt == [kind |-> ">"]
Slash == [kind |-> "/"]
Dot == [kind |-> "."]
Space == [kind |-> " "]
Newline == [kind |-> "\n"]
Word(text) == [kind |-> "word", text |-> text]
StringAttr(name, value) == [kind |-> "attribute", name |-> name, form |-> "string", value |-> value]
ExprAttr(name, value) == [kind |-> "attribute", name |-> name, form |-> "expression", value |-> value]

\* \s
IsWhitespace(lexeme) == lexeme.kind \in {" ", "\n"}

\* the attribute values that are arrow functions: they hold "() =>", hence a ">"
ArrowValues == {"() => go()"}

\* the lexeme holds a ">"
HasGt(lexeme) == lexeme = Gt \/ (lexeme.kind = "attribute" /\ lexeme.value \in ArrowValues)

\* the least element of a non-empty set of positions
least(S) == CHOOSE m \in S : \A n \in S : m <= n

\* the position of the first </tag> at or after position from, or 0
findClosing(doc, tag, from) ==
    IF \E m \in from..(Len(doc) - 3) :
          doc[m] = Lt /\ doc[m + 1] = Slash /\ doc[m + 2] = Word(tag) /\ doc[m + 3] = Gt
    THEN least({m \in from..(Len(doc) - 3) :
                  doc[m] = Lt /\ doc[m + 1] = Slash /\ doc[m + 2] = Word(tag) /\ doc[m + 3] = Gt})
    ELSE 0

\* the position of the first ">" at or after position from, or 0
firstGt(doc, from) ==
    IF \E m \in from..Len(doc) : HasGt(doc[m])
    THEN least({m \in from..Len(doc) : HasGt(doc[m])})
    ELSE 0

\* jsxRegex after <tag and attributes up to the first ">" at position E, the
\* closing tag after it being at position closing: >...</tag> is tried before />
matchPairOrSelfClosing(doc, E, closing) ==
    IF closing /= 0 THEN closing + 4
    ELSE IF doc[E] = Gt /\ doc[E - 1] = Slash THEN E + 1
    ELSE 0

\* jsxRegex after <tag, at position j: the position after the match, or 0
matchAfterTag(doc, tag, j) ==
    IF j > Len(doc) THEN 0
    ELSE IF doc[j] = Slash
    THEN IF j + 1 <= Len(doc) /\ doc[j + 1] = Gt THEN j + 2 ELSE 0
    ELSE IF doc[j] = Gt
    THEN IF findClosing(doc, tag, j + 1) /= 0 THEN findClosing(doc, tag, j + 1) + 4 ELSE 0
    ELSE IF IsWhitespace(doc[j])
    THEN IF firstGt(doc, j + 1) = 0 THEN 0
         ELSE matchPairOrSelfClosing(doc, firstGt(doc, j + 1),
                                     findClosing(doc, tag, firstGt(doc, j + 1) + 1))
    ELSE 0

\* jsxRegex = /<(\w+)(?:\s+[^>]*)?(?:\s*\/>|>[\s\S]*?<\/\1>)/ tried at position i:
\* the position after the match, or 0 when there is no match at i
matchAt(doc, i) ==
    IF i + 1 <= Len(doc) /\ doc[i] = Lt /\ doc[i + 1].kind = "word"
    THEN matchAfterTag(doc, doc[i + 1].text, i + 2)
    ELSE 0

\* code.substring(0, index).split('\n').length for a position of the body
lineOf(headerLines, doc, i) ==
    headerLines + 1 + Cardinality({k \in 1..(i - 1) : doc[k] = Newline})

RECURSIVE extractJSXFrom(_, _, _, _), extractJSXStep(_, _, _, _, _)
\* the exec loop of extractJSX, with lastIndex at position i
extractJSXFrom(headerLines, doc, i, antd) ==
    IF i > Len(doc) THEN <<>>
    ELSE extractJSXStep(headerLines, doc, i, antd, matchAt(doc, i))

\* one step of the loop, the match tried at i ending before position end
extractJSXStep(headerLines, doc, i, antd, end) ==
    IF end = 0 THEN extractJSXFrom(headerLines, doc, i + 1, antd)
    ELSE <<[tagName |-> doc[i + 1].text,
            fullMatch |-> SubSeq(doc, i, end - 1),
            line |-> lineOf(headerLines, doc, i),
            isAntdComponent |-> doc[i + 1].text \in antd]>>
         \o extractJSXFrom(headerLines, doc, end, antd)

\* extractJSX
extractJSX(code, antd) == extractJSXFrom(Len(code.header), code.body, 1, antd)

\* a lexeme of a header line that is neither a word nor a blank
Other(text) == [kind |-> "other", text |-> text]

\* header lines: import statements and arrow-function component declarations
NamedImport(pieces, source) ==
    [kind |-> "import", form |-> "named", pieces |-> pieces, ident |-> "", source |-> source]
DefaultImport(ident, source) ==
    [kind |-> "import", form |-> "default", pieces |-> <<>>, ident |-> ident, source |-> source]
NamespaceImport(ident, source) ==
    [kind |-> "import", form |-> "namespace", pieces |-> <<>>, ident |-> ident, source |-> source]
\* import React, { useState } from 'react'
DefaultAndNamedImport(ident, pieces, source) ==
    [kind |-> "import", form |-> "default+named", pieces |-> pieces, ident |-> ident,
     source |-> source]
\* const Name = () => {
ComponentLine(name) == [kind |-> "component", name |-> name]

\* one of the comma-separated pieces between the braces of an import, with the
\* blanks around the name
Piece(name) == [blanksBefore |-> 1, name |-> name, blanksAfter |-> 0]

\* String.prototype.trim on a piece
trim(piece) == piece.name

\* the ImportInfo importRegex yields for header line k; the regex does not match
\* a default import followed by named imports
importInfo(line, k) ==
    [source |-> line.source,
     defaultImport |-> IF line.form = "default" THEN Some(line.ident) ELSE None,
     namedImports |-> IF line.form = "named"
                      THEN [p \in 1..Len(line.pieces) |-> trim(line.pieces[p])]
                      ELSE <<>>,
     namespaceImport |-> IF line.form = "namespace" THEN Some(line.ident) ELSE None,
     line |-> k]

RECURSIVE extractImportsFrom(_, _)
\* the exec loop of extractImports, from header line k on
extractImportsFrom(header, k) ==
    IF k > Len(header) THEN <<>>
    ELSE (IF header[k].kind = "import" /\ header[k].form /= "default+named"
             /\ (header[k].form = "named" => Len(header[k].pieces) > 0)
          THEN <<importInfo(header[k], k)>> ELSE <<>>)
         \o extractImportsFrom(header, k + 1)

\* extractImports
extractImports(code) == extractImportsFrom(code.header, 1)

RECURSIVE extractComponentsFrom(_, _)
\* the exec loop of extractComponents, from header line k on
extractComponentsFrom(header, k) ==
    IF k > Len(header) THEN <<>>
    ELSE (IF header[k].kind = "component"
          THEN <<[name |-> header[k].name, type |-> "function", line |-> k]>> ELSE <<>>)
         \o extractComponentsFrom(header, k + 1)

\* extractComponents
extractComponents(code) == extractComponentsFrom(code.header, 1)

\* the (\w+) before the "=" of an attribute
wordBeforeEquals(name) == IF name = "aria-label" THEN "label" ELSE name

\* the ([^}]+) of an expression value: the text before its first "}"
upToBrace(value) == IF value = "{ margin: 0 }" THEN "{ margin: 0 " ELSE value

\* the PropInfo propRegex yields for the attribute at position i
propInfo(headerLines, doc, i) ==
    [name |-> wordBeforeEquals(doc[i].name),
     value |-> IF doc[i].form = "expression" THEN upToBrace(doc[i].value) ELSE doc[i].value,
     type |-> doc[i].form,
     line |-> lineOf(headerLines, doc, i)]

RECURSIVE extractPropsFrom(_, _, _)
\* the exec loop of extractProps, from position i of the body on
extractPropsFrom(headerLines, doc, i) ==
    IF i > Len(doc) THEN <<>>
    ELSE (IF doc[i].kind = "attribute" /\ doc[i].value /= ""
          THEN <<propInfo(headerLines, doc, i)>> ELSE <<>>)
         \o extractPropsFrom(headerLines, doc, i + 1)

\* extractProps
extractProps(code) == extractPropsFrom(Len(code.header), code.body, 1)

RECURSIVE extractStylesFrom(_, _, _)
\* the exec loop of extractStyles, from position i of the body on
extractStylesFrom(headerLines, doc, i) ==
    IF i > Len(doc) THEN <<>>
    ELSE (IF doc[i].kind = "attribute" /\ doc[i].name = "style"
             /\ doc[i].form = "expression" /\ doc[i].value /= ""
          THEN <<[type |-> "inline", content |-> upToBrace(doc[i].value),
                  line |-> lineOf(headerLines, doc, i)]>>
          ELSE <<>>)
         \o extractStylesFrom(headerLines, doc, i + 1)

\* extractStyles
extractStyles(code) == extractStylesFrom(Len(code.header), code.body, 1)

\* the text of a header line, as lexemes
headerLexemes(line) ==
    IF line.kind = "component"
    THEN <<Word("const"), Space, [kind |-> "name", name |-> line.name], Space, Other("= () => {")>>
    ELSE <<Word("import"), Space, Other(line.form), Space, Word("from"), Space,
           Other(line.source)>>

RECURSIVE splitLines(_, _, _)
\* body.split('\n'): the lines of the body from position i on, current holding the
\* lexemes of the line being read
splitLines(doc, i, current) ==
    IF i > Len(doc) THEN <<current>>
    ELSE IF doc[i] = Newline THEN <<current>> \o splitLines(doc, i + 1, <<>>)
    ELSE splitLines(doc, i + 1, Append(current, doc[i]))

\* code.split('\n')
linesOf(code) ==
    [k \in 1..Len(code.header) |-> headerLexemes(code.header[k])]
    \o splitLines(code.body, 1, <<>>)

\* parseCode: code.split throws when code is not a string
parseCode(code, antd) ==
    IF code.kind = "undefined"
    THEN Thrown("Cannot read properties of undefined (reading 'split')")
    ELSE IF code.kind /= "string"
    THEN Thrown("code.split is not a function")
    ELSE Returned([raw |-> code,
                   lines |-> linesOf(code),
                   imports |-> extractImports(code),
                   components |-> extractComponents(code),
                   jsx |-> extractJSX(code, antd),
                   props |-> extractProps(code),
                   styles |-> extractStyles(code)])

----------------------------------------------------------------------------
(* CodeValidator: the validation rules *)

RuleResult(errors, warnings, suggestions) ==
    [errors |-> errors, warnings |-> warnings, suggestions |-> suggestions]

\* code.jsx.some(jsx => jsx.tagName === name)
usesTag(jsx, name) == \E k \in 1..Len(jsx) : jsx[k].tagName = name

UnusedImportWarning(name) ==
    [type |-> "best-practice", message |-> "Unused import from antd", subject |-> name]

\* the named imports no JSX element uses
unusedNames(namedImports, jsx) == SelectSeq(namedImports, LAMBDA name : ~usesTag(jsx, name))

unusedWarnings(names) == [n \in 1..Len(names) |-> UnusedImportWarning(names[n])]

RECURSIVE unusedImportWarnings(_, _, _)
\* the forEach over code.imports of ImportValidationRule, from import k on
unusedImportWarnings(imports, k, jsx) ==
    IF k > Len(imports) THEN <<>>
    ELSE (IF imports[k].source = "antd"
          THEN unusedWarnings(unusedNames(imports[k].namedImports, jsx))
          ELSE <<>>)
         \o unusedImportWarnings(imports, k + 1, jsx)

ImportValidationRule(code) ==
    RuleResult(IF ~(\E k \in 1..Len(code.imports) : code.imports[k].source = "react")
                  /\ Len(code.jsx) > 0
               THEN <<[type |-> "import", message |-> "Missing React import",
                       severity |-> "error"]>>
               ELSE <<>>,
               unusedImportWarnings(code.imports, 1, code.jsx),
               <<>>)

RECURSIVE antdUsageErrors(_, _)
\* the forEach over code.jsx of AntdUsageValidationRule, from element k on
antdUsageErrors(jsx, k) ==
    IF k > Len(jsx) THEN <<>>
    ELSE (IF jsx[k].isAntdComponent /\ jsx[k].tagName = "Form.Item" /\ ~usesTag(jsx, "Form")
          THEN <<[type |-> "antd-usage", message |-> "Form.Item must be inside a Form component",
                  line |-> jsx[k].line, severity |-> "error"]>>
          ELSE <<>>)
         \o antdUsageErrors(jsx, k + 1)

AntdUsageValidationRule(code) == RuleResult(antdUsageErrors(code.jsx, 1), <<>>, <<>>)

RECURSIVE invalidSizeWarnings(_, _)
\* the forEach over code.props of PropValidationRule, from prop k on
invalidSizeWarnings(props, k) ==
    IF k > Len(props) THEN <<>>
    ELSE (IF props[k].name = "size" /\ props[k].value \notin {"small", "middle", "large"}
          THEN <<[type |-> "best-practice", message |-> "Invalid size prop value",
                  subject |-> props[k].value, line |-> props[k].line]>>
          ELSE <<>>)
         \o invalidSizeWarnings(props, k + 1)

PropValidationRule(code) == RuleResult(<<>>, invalidSizeWarnings(code.props, 1), <<>>)

\* fullMatch.includes('alt='), fullMatch.includes('aria-label'), fullMatch.includes('>')
includesAltEquals(text) ==
    \E k \in 1..Len(text) : text[k].kind = "attribute" /\ text[k].name = "alt"
includesAriaLabel(text) ==
    \E k \in 1..Len(text) : text[k].kind = "attribute" /\ text[k].name = "aria-label"
includesGt(text) == \E k \in 1..Len(text) : HasGt(text[k])

RECURSIVE accessibilityWarnings(_, _)
\* the forEach over code.jsx of AccessibilityValidationRule, from element k on
accessibilityWarnings(jsx, k) ==
    IF k > Len(jsx) THEN <<>>
    ELSE (IF jsx[k].tagName = "img" /\ ~includesAltEquals(jsx[k].fullMatch)
          THEN <<[type |-> "best-practice", message |-> "Image missing alt text",
                  line |-> jsx[k].line]>>
          ELSE <<>>)
         \o (IF jsx[k].tagName = "Button" /\ ~includesAriaLabel(jsx[k].fullMatch)
                /\ ~includesGt(jsx[k].fullMatch)
             THEN <<[type |-> "best-practice", message |-> "Button without accessible label",
                     line |-> jsx[k].line]>>
             ELSE <<>>)
         \o accessibilityWarnings(jsx, k + 1)

AccessibilityValidationRule(code) == RuleResult(<<>>, accessibilityWarnings(code.jsx, 1), <<>>)

\* line.includes('() =>'), line.includes('onClick')
includesArrow(line) ==
    \E k \in 1..Len(line) : \/ line[k].kind = "attribute" /\ line[k].value \in ArrowValues
                            \/ line[k] = Other("= () => {")
includesOnClick(line) ==
    \E k \in 1..Len(line) : line[k].kind = "attribute" /\ line[k].name = "onClick"

RECURSIVE inlineFunctionWarnings(_, _)
\* the forEach over code.lines of PerformanceValidationRule, from line k on
inlineFunctionWarnings(lines, k) ==
    IF k > Len(lines) THEN <<>>
    ELSE (IF includesArrow(lines[k]) /\ includesOnClick(lines[k])
          THEN <<[type |-> "performance", message |-> "Inline function in event handler",
                  line |-> k]>>
          ELSE <<>>)
         \o inlineFunctionWarnings(lines, k + 1)

PerformanceValidationRule(code) == RuleResult(<<>>, inlineFunctionWarnings(code.lines, 1), <<>>)

UpperCaseLetters ==
    {"A", "B", "C", "D", "E", "F", "G", "H", "I", "J", "K", "L", "M",
     "N", "O", "P", "Q", "R", "S", "T", "U", "V", "W", "X", "Y", "Z"}

\* /^[A-Z]/.test(name)
startsUpperCase(name) == Len(name) > 0 /\ name[1] \in UpperCaseLetters

RECURSIVE namingWarnings(_, _)
\* the forEach over code.components of BestPracticeValidationRule, from component k on
namingWarnings(components, k) ==
    IF k > Len(components) THEN <<>>
    ELSE (IF ~startsUpperCase(components[k].name)
          THEN <<[type |-> "best-practice",
                  message |-> "Component name should start with uppercase",
                  subject |-> components[k].name, line |-> components[k].line]>>
          ELSE <<>>)
         \o namingWarnings(components, k + 1)

\* the number of JSX elements above which a component is reported as large
LargeComponent == 10

BestPracticeValidationRule(code) ==
    RuleResult(<<>>, namingWarnings(code.components, 1),
               IF Len(code.jsx) > LargeComponent
               THEN <<[type |-> "improvement",
                       message |-> "Consider breaking down large components into smaller ones"]>>
               ELSE <<>>)

\* initializeValidationRules
validationRules ==
    <<"ImportValidationRule", "AntdUsageValidationRule", "PropValidationRule",
      "AccessibilityValidationRule", "PerformanceValidationRule", "BestPracticeValidationRule">>

\* rule.validate(parsedCode, config)
ruleValidate(rule, code) ==
    CASE rule = "ImportValidationRule" -> ImportValidationRule(code)
      [] rule = "AntdUsageValidationRule" -> AntdUsageValidationRule(code)
      [] rule = "PropValidationRule" -> PropValidationRule(code)
      [] rule = "AccessibilityValidationRule" -> AccessibilityValidationRule(code)
      [] rule = "PerformanceValidationRule" -> PerformanceValidationRule(code)
      [] rule = "BestPracticeValidationRule" -> BestPracticeValidationRule(code)

\* shouldApplyRule that lets every rule run
alwaysApply(rule, config) == TRUE

shouldApplyRule(rule, config) ==
    CASE rule = "ImportValidationRule" -> config.checkImports
      [] rule = "PropValidationRule" -> config.checkProps
      [] rule = "AccessibilityValidationRule" -> config.checkAccessibility
      [] rule = "PerformanceValidationRule" -> config.checkPerformance
      [] OTHER -> TRUE

----------------------------------------------------------------------------
(* CodeValidator: validate, calculateScore and loadAntdComponents *)

FullScore == 100
ErrorPenalty == 20
WarningSeverityPenalty == 5
WarningPenalty == 2

\* score without the floor of calculateScore
unfloored(score) == score

\* Math.max(0, score)
floorAtZero(score) == Max(0, score)

\* result.errors.filter(e => e.severity === severity).length
countSeverity(result, severity) ==
    Len(SelectSeq(result.errors, LAMBDA error : error.severity = severity))

\* calculateScore
calculateScore(result) ==
    floorAtZero(FullScore - countSeverity(result, "error") * ErrorPenalty
                          - countSeverity(result, "warning") * WarningSeverityPenalty
                          - Len(result.warnings) * WarningPenalty)

\* validity read off the score instead of the errors
positiveScore(result) == result.score > 0

\* result.errors.filter(e => e.severity === 'error').length === 0
noErrorSeverity(result) == countSeverity(result, "error") = 0

OptionKeys == {"strict", "checkImports", "checkProps", "checkAccessibility", "checkPerformance"}

\* { strict: true, ..., ...options }
configOf(options) == [key \in OptionKeys |-> IF key \in DOMAIN options THEN options[key] ELSE TRUE]

\* the three push(...) of the loop of validate
pushRuleResult(result, ruleResult) ==
    [result EXCEPT !.errors = @ \o ruleResult.errors,
                   !.warnings = @ \o ruleResult.warnings,
                   !.suggestions = @ \o ruleResult.suggestions]

RECURSIVE runRules(_, _, _, _, _)
\* the loop of validate over the rules, from rule k on
runRules(rules, k, code, config, result) ==
    IF k > Len(rules) THEN result
    ELSE runRules(rules, k + 1, code, config,
                  IF shouldApplyRule(rules[k], config)
                  THEN pushRuleResult(result, ruleValidate(rules[k], code))
                  ELSE result)

withScore(result) == [result EXCEPT !.score = calculateScore(result)]
withValidity(result) == [result EXCEPT !.isValid = noErrorSeverity(result)]

\* a catch block that records the anomaly and leaves isValid and score as they were
validateCatchRecordingOnly(result, message) ==
    [result EXCEPT !.errors = Append(@, [type |-> "syntax", message |-> "Failed to parse code",
                                         detail |-> message, severity |-> "error"])]

\* the catch block of validate
validateCatch(result, message) ==
    [result EXCEPT !.errors = Append(@, [type |-> "syntax", message |-> "Failed to parse code",
                                         detail |-> message, severity |-> "error"]),
                   !.isValid = FALSE,
                   !.score = 0]

\* validate after parseCode
validateParsed(parsed, config, result) ==
    IF parsed.threw THEN validateCatch(result, parsed.message)
    ELSE withValidity(withScore(runRules(validationRules, 1, parsed.value, config, result)))

\* validate
validate(code, options, antd) ==
    validateParsed(parseCode(code, antd), configOf(options),
                   [isValid |-> TRUE, errors |-> <<>>, warnings |-> <<>>,
                    suggestions |-> <<>>, score |-> 0])

\* the fallback list of loadAntdComponents
commonComponents ==
    {"Button", "Input", "Card", "Typography", "Space", "Row", "Col",
     "Form", "Table", "Modal", "Drawer", "Alert", "Spin", "Menu",
     "Dropdown", "Tooltip", "Popover", "Tabs", "Select", "DatePicker",
     "Checkbox", "Radio", "Switch", "Slider", "Upload", "Avatar",
     "Badge", "Tag", "Progress", "Tree", "List", "Steps", "Breadcrumb"}

\* what exportRegex and split(',') take from antd/components/index.ts, whose
\* statements are of the form  export { default as Button } from './button'
indexExports == {"default as Button", "default as Form", "default as Input"}

\* loadAntdComponents, started by the constructor and not awaited: it completes
\* at some later time, with the index file read or not
LoadAntdComponents ==
    /\ loadState = "pending"
    /\ \E readOk \in BOOLEAN :
          antdComponents' = antdComponents \cup (IF readOk THEN indexExports ELSE commonComponents)
    /\ loadState' = "loaded"
    /\ UNCHANGED <<valCode, valOptions, valResult, valOutcome>>

----------------------------------------------------------------------------
(* CodeValidator: the source texts and options handed to validate *)

\* the largest number of JSX snippets in the body of a source text
MaxSnippets == 3
\* the number of named imports of the longest import statement
MaxNamedImports == 50

name_App == <<"A", "p", "p">>
name_app == <<"a", "p", "p">>

\* <Form.Item name="a">, </Form.Item>, <Form>, </Form>, <Input style={{ margin: 0 }} />,
\* <Button>Go</Button>, <Button size="huge" />, <Button onClick={() => go()} />,
\* <img src="x" />
Snippets ==
    {<<Lt, Word("Form"), Dot, Word("Item"), Space, StringAttr("name", "a"), Gt>>,
     <<Lt, Slash, Word("Form"), Dot, Word("Item"), Gt>>,
     <<Lt, Word("Form"), Gt>>,
     <<Lt, Slash, Word("Form"), Gt>>,
     <<Lt, Word("Input"), Space, ExprAttr("style", "{ margin: 0 }"), Space, Slash, Gt>>,
     <<Lt, Word("Button"), Gt, Word("Go"), Lt, Slash, Word("Button"), Gt>>,
     <<Lt, Word("Button"), Space, StringAttr("size", "huge"), Space, Slash, Gt>>,
     <<Lt, Word("Button"), Space, ExprAttr("onClick", "() => go()"), Space, Slash, Gt>>,
     <<Lt, Word("img"), Space, StringAttr("src", "x"), Space, Slash, Gt>>}

RECURSIVE joinLines(_, _)
\* the snippets from index k on, one per line
joinLines(snippets, k) ==
    IF k > Len(snippets) THEN <<>>
    ELSE IF k = Len(snippets) THEN snippets[k]
    ELSE snippets[k] \o <<Newline>> \o joinLines(snippets, k + 1)

\* the headers: import statements and the component declaration
Headers(maxNamedImports) ==
    {<<DefaultImport("React", "react"),
       NamespaceImport("Icons", "@ant-design/icons"),
       NamedImport(<<Piece("Button"), Piece("Input")>>, "antd"),
       ComponentLine(name_App)>>,
     <<DefaultAndNamedImport("React", <<Piece("useState")>>, "react"),
       NamedImport(<<Piece("Form")>>, "antd"),
       ComponentLine(name_app)>>,
     <<DefaultImport("React", "react"),
       NamedImport([n \in 1..maxNamedImports |-> Piece("Unused" \o ToString(n))], "antd"),
       ComponentLine(name_App)>>}

\* the source texts
SourceTexts(maxSnippets, maxNamedImports) ==
    {[kind |-> "string", header |-> header, body |-> joinLines(snippets, 1)] :
        header \in Headers(maxNamedImports), snippets \in SeqsUpTo(Snippets, maxSnippets)}

\* what the tool passes for code when the caller sends no string
NonStrings == {[kind |-> "undefined"], [kind |-> "number"]}

\* the options: what the tool passes, and what a direct caller may pass
OptionChoices ==
    {[strict |-> TRUE],
     [strict |-> FALSE, checkImports |-> FALSE],
     [checkImports |-> FALSE, checkProps |-> FALSE, checkAccessibility |-> FALSE,
      checkPerformance |-> FALSE]}

\* the promise of validate resolves
ValidateSettles(code, options, result) ==
    /\ valCode' = Some(code)
    /\ valOptions' = Some(options)
    /\ valResult' = Some(result)
    /\ valOutcome' = "returned"

\* validate(code, options)
Validate ==
    /\ valOutcome = "idle"
    /\ \E code \in SourceTexts(MaxSnippets, MaxNamedImports) \cup NonStrings,
          options \in OptionChoices :
          ValidateSettles(code, options, validate(code, options, antdComponents))
    /\ UNCHANGED <<antdComponents, loadState>>

\* the largest number of JSX snippets of the texts validated under each choice of
\* check options
MaxOptionSnippets == 2

\* the options of a direct caller: every check left on, one check turned off, or all
\* four turned off
CheckOptionChoices ==
    {<<>>,
     [checkImports |-> FALSE], [checkProps |-> FALSE], [checkAccessibility |-> FALSE],
     [checkPerformance |-> FALSE],
     [checkImports |-> FALSE, checkProps |-> FALSE, checkAccessibility |-> FALSE,
      checkPerformance |-> FALSE]}

\* validate(code, options) with check options
ValidateWithOptions ==
    /\ valOutcome = "idle"
    /\ \E code \in SourceTexts(MaxOptionSnippets, MaxNamedImports),
          options \in CheckOptionChoices :
          ValidateSettles(code, options, validate(code, options, antdComponents))
    /\ UNCHANGED <<antdComponents, loadState>>

----------------------------------------------------------------------------
(* CodeValidator: calculateScore on its own *)

\* the largest numbers of entries of result.errors and of result.warnings
MaxErrors == 6
MaxWarnings == 3

\* results with every combination of severities in errors
ScoreResults(maxErrors, maxWarnings) ==
    {[isValid |-> TRUE,
      errors |-> [k \in 1..Len(severities) |->
                    [type |-> "prop", message |-> "", severity |-> severities[k]]],
      warnings |-> [k \in 1..warnings |-> [type |-> "style", message |-> ""]],
      suggestions |-> <<>>,
      score |-> 0] :
        severities \in SeqsUpTo({"error", "warning"}, maxErrors), warnings \in 0..maxWarnings}

\* calculateScore(result)
CalculateScore ==
    /\ scoreValue = None
    /\ scoreValue' = Some(calculateScore(Get(scoreInput)))
    /\ UNCHANGED scoreInput

----------------------------------------------------------------------------
(* The server: the handler of tool calls *)

\* the names of the cases of the handler's switch
RegisteredTools ==
    {"parse_figma_design", "add_figma_file", "get_figma_node_thumbnail",
     "read_figma_comments", "post_figma_comment", "analyze_antd_components",
     "generate_react_code", "validate_generated_code", "parse_figma_selection",
     "get_component_mapping"}

\* the names a client may call: the registered ones and some that are not
CalledNames == RegisteredTools \cup {"", "parse_figma"}

\* the largest number of tool calls answered
MaxToolCalls == 2

\* what the handler answers with: a content, or an error with its code
ToolResult == [kind |-> "content", code |-> "", message |-> ""]
ToolError(code, message) == [kind |-> "error", code |-> code, message |-> message]

\* the catch around the switch: whatever was thrown is answered as a new InternalError
catch(tried) ==
    IF tried.kind = "error"
    THEN ToolError("InternalError", "Error executing tool")
    ELSE tried

\* the switch on the tool's name; the body of a case returns a content or throws a
\* plain Error, the default case throws MethodNotFound
switch(name, bodyThrows) ==
    IF name \in RegisteredTools
    THEN IF bodyThrows THEN ToolError("", "Error") ELSE ToolResult
    ELSE ToolError("MethodNotFound", "Unknown tool")

\* the CallToolRequest handler
CallTool ==
    /\ Len(toolCalls) < MaxToolCalls
    /\ \E name \in CalledNames, bodyThrows \in BOOLEAN :
          toolCalls' = Append(toolCalls, [name |-> name,
                                          answer |-> catch(switch(name, bodyThrows))])

----------------------------------------------------------------------------
(* Specifications *)

ParserInit == rawDocument = None /\ parsedComponents = None
MapIdle == figmaNode = None /\ mappingCalls = <<>> /\ otherCalls = 0
GenIdle ==
    /\ antdDirs = {} /\ componentsCache = <<>>
    /\ genConfig = None /\ genResult = None /\ genOutcome = "idle"
ValIdle ==
    /\ antdComponents = {} /\ loadState = "pending"
    /\ valCode = None /\ valOptions = None /\ valResult = None /\ valOutcome = "idle"
ScoreIdle == scoreInput = None /\ scoreValue = None
AnalyzerIdle == analyzerCalls = <<>> /\ builtObjects = 0
FileIdle == parseCall = None
JsxIdle == jsxConfig = None /\ jsxElement = None
ToolIdle == toolCalls = <<>>

\* FigmaParser on its own
InitParse ==
    /\ ParserInit /\ MapIdle /\ GenIdle /\ ValIdle /\ ScoreIdle /\ AnalyzerIdle /\ FileIdle /\ JsxIdle /\ ToolIdle
    /\ componentMappings = <<>>

NextParse == ParseNode /\ UNCHANGED <<componentMappings, mapVars, genVars, valVars, scoreVars, analyzerVars, fileVars, jsxVars, toolVars>>

SpecParse == InitParse /\ [][NextParse]_vars

\* CodeGenerator.getComponentMapping on its own: a node is chosen, then mapped
\* repeatedly, with calls on other nodes in between
InitMap ==
    /\ ParserInit /\ GenIdle /\ ValIdle /\ ScoreIdle /\ AnalyzerIdle /\ FileIdle /\ JsxIdle /\ ToolIdle
    /\ componentMappings = InitialComponentMappings
    /\ figmaNode \in {Some(node) : node \in MapNodes}
    /\ mappingCalls = <<>>
    /\ otherCalls = 0

NextMap ==
    \/ GetComponentMapping /\ UNCHANGED <<parserVars, genVars, valVars, scoreVars, analyzerVars, fileVars, jsxVars, toolVars>>
    \/ OtherMappingCall /\ UNCHANGED <<parserVars, genVars, valVars, scoreVars, analyzerVars, fileVars, jsxVars, toolVars>>

SpecMap == InitMap /\ [][NextMap]_vars

\* CodeGenerator.generateComponent with its AntdAnalyzer
InitGen ==
    /\ ParserInit /\ MapIdle /\ ValIdle /\ ScoreIdle /\ AnalyzerIdle /\ FileIdle /\ JsxIdle /\ ToolIdle
    /\ componentMappings = InitialComponentMappings
    /\ antdDirs \in Catalogs
    /\ componentsCache = <<>>
    /\ genConfig = None /\ genResult = None /\ genOutcome = "idle"

NextGen == GenerateComponent /\ UNCHANGED <<parserVars, mapVars, valVars, scoreVars, analyzerVars, fileVars, jsxVars, toolVars>>

SpecGen == InitGen /\ [][NextGen]_vars

\* CodeValidator: the constructor, then the load and a validate call in either order
InitValidate ==
    /\ ParserInit /\ MapIdle /\ GenIdle /\ ScoreIdle /\ AnalyzerIdle /\ FileIdle /\ JsxIdle /\ ToolIdle
    /\ componentMappings = <<>>
    /\ antdComponents = {} /\ loadState = "pending"
    /\ valCode = None /\ valOptions = None /\ valResult = None /\ valOutcome = "idle"

NextValidate ==
    \/ LoadAntdComponents /\ UNCHANGED <<componentMappings, parserVars, mapVars, genVars, scoreVars, analyzerVars, fileVars, jsxVars, toolVars>>
    \/ Validate /\ UNCHANGED <<componentMappings, parserVars, mapVars, genVars, scoreVars, analyzerVars, fileVars, jsxVars, toolVars>>

SpecValidate == InitValidate /\ [][NextValidate]_vars

\* validate under each choice of check options
InitOptions == InitValidate

NextOptions ==
    \/ LoadAntdComponents /\ UNCHANGED <<componentMappings, parserVars, mapVars, genVars, scoreVars, analyzerVars, fileVars, jsxVars, toolVars>>
    \/ ValidateWithOptions /\ UNCHANGED <<componentMappings, parserVars, mapVars, genVars, scoreVars, analyzerVars, fileVars, jsxVars, toolVars>>

SpecOptions == InitOptions /\ [][NextOptions]_vars

\* AntdAnalyzer with analyzeComponent calls in flight together
InitAnalyzer ==
    /\ ParserInit /\ MapIdle /\ ValIdle /\ ScoreIdle /\ AnalyzerIdle /\ FileIdle /\ JsxIdle /\ ToolIdle
    /\ componentMappings = <<>>
    /\ antdDirs \in Catalogs
    /\ componentsCache = <<>>
    /\ genConfig = None /\ genResult = None /\ genOutcome = "idle"

NextAnalyzer ==
    \/ AnalyzeComponentStarts
         /\ UNCHANGED <<componentMappings, parserVars, mapVars, valVars, scoreVars,
                        genConfig, genResult, genOutcome, fileVars, jsxVars, toolVars>>
    \/ AnalyzeComponentAccessSettles
         /\ UNCHANGED <<componentMappings, parserVars, mapVars, valVars, scoreVars,
                        genConfig, genResult, genOutcome, fileVars, jsxVars, toolVars>>
    \/ AnalyzeComponentBuilt
         /\ UNCHANGED <<componentMappings, parserVars, mapVars, valVars, scoreVars,
                        genConfig, genResult, genOutcome, fileVars, jsxVars, toolVars>>
    \/ AnalyzeComponentBuildFails
         /\ UNCHANGED <<componentMappings, parserVars, mapVars, valVars, scoreVars,
                        genConfig, genResult, genOutcome, fileVars, jsxVars, toolVars>>
    \/ CatalogChanges
         /\ UNCHANGED <<componentMappings, parserVars, mapVars, valVars, scoreVars,
                        genConfig, genResult, genOutcome, fileVars, jsxVars, toolVars>>

SpecAnalyzer == InitAnalyzer /\ [][NextAnalyzer]_vars

\* the server's handler of tool calls, one call after the other
InitTool == InitParse

NextTool ==
    CallTool /\ UNCHANGED <<componentMappings, parserVars, mapVars, genVars, valVars,
                            scoreVars, analyzerVars, fileVars, jsxVars>>

SpecTool == InitTool /\ [][NextTool]_vars

\* CodeGenerator.generateComponent on buttons of every height
InitSize == InitGen

NextSize ==
    GenerateSizedButton /\ UNCHANGED <<parserVars, mapVars, valVars, scoreVars, analyzerVars,
                                       fileVars, jsxVars, toolVars>>

SpecSize == InitSize /\ [][NextSize]_vars

\* CodeGenerator.generateComponentJSX on the props objects it may be handed
InitJsx == InitParse

NextJsx ==
    EmitComponentJSX /\ UNCHANGED <<componentMappings, parserVars, mapVars, genVars, valVars,
                                    scoreVars, analyzerVars, fileVars, toolVars>>

SpecJsx == InitJsx /\ [][NextJsx]_vars

\* FigmaParser.parseFile with the documents the two endpoints may supply
InitFile ==
    /\ ParserInit /\ MapIdle /\ GenIdle /\ ValIdle /\ ScoreIdle /\ AnalyzerIdle /\ FileIdle /\ JsxIdle /\ ToolIdle
    /\ componentMappings = <<>>

NextFile ==
    ParseFile /\ UNCHANGED <<componentMappings, mapVars, genVars, valVars, scoreVars,
                             analyzerVars, jsxVars, toolVars>>

SpecFile == InitFile /\ [][NextFile]_vars

\* colorToHex, through parseNode, on every color drawn
InitColor == InitParse

NextColor ==
    ParseColoredNode /\ UNCHANGED <<componentMappings, mapVars, genVars, valVars, scoreVars,
                                    analyzerVars, fileVars, jsxVars, toolVars>>

SpecColor == InitColor /\ [][NextColor]_vars

\* calculateScore as a function of the result it is given
InitScore ==
    /\ ParserInit /\ MapIdle /\ GenIdle /\ ValIdle /\ AnalyzerIdle /\ FileIdle /\ JsxIdle /\ ToolIdle
    /\ componentMappings = <<>>
    /\ scoreInput \in {Some(result) : result \in ScoreResults(MaxErrors, MaxWarnings)}
    /\ scoreValue = None

NextScore ==
    CalculateScore /\ UNCHANGED <<componentMappings, parserVars, mapVars, genVars, valVars,
                                  analyzerVars, fileVars, jsxVars, toolVars>>

SpecScore == InitScore /\ [][NextScore]_vars

\* parse_figma_design on a whole file, then generate_react_code on its result
InitPipeline == InitGen

NextPipeline ==
    \/ ParseDocument /\ UNCHANGED <<componentMappings, mapVars, genVars, valVars, scoreVars, analyzerVars, fileVars, jsxVars, toolVars>>
    \/ GenerateParsed /\ UNCHANGED <<parserVars, mapVars, valVars, scoreVars, analyzerVars, fileVars, jsxVars, toolVars>>

SpecPipeline == InitPipeline /\ [][NextPipeline]_vars

----------------------------------------------------------------------------
(* Claims about FigmaParser *)

semChildren(component) == IF IsSome(component.children) THEN Get(component.children) ELSE <<>>

RECURSIVE BuiltFrom(_, _)
\* the semantic node is the image of the raw node, child by child, in order
BuiltFrom(component, node) ==
    /\ component.id = node.id
    /\ component.name = node.name
    /\ component.type = node.type
    /\ Len(semChildren(component)) = Len(rawChildren(node))
    /\ \A i \in 1..Len(rawChildren(node)) :
         BuiltFrom(semChildren(component)[i], rawChildren(node)[i])

\* C1: parseNode returns one component for the raw root, and at every container node
\* the semantic child list has the length of the raw child list and its child at
\* index i is built from the raw child at index i.
C1_ChildOrderPreserved ==
    IsSome(parsedComponents) =>
        /\ Len(Get(parsedComponents)) = 1
        /\ BuiltFrom(Get(parsedComponents)[1], Get(rawDocument))

\* a parsed document whose root has two children, the second a container itself
C1_Witness ==
    /\ IsSome(parsedComponents)
    /\ Len(rawChildren(Get(rawDocument))) = 2
    /\ Len(rawChildren(rawChildren(Get(rawDocument))[2])) = 1
    /\ Len(semChildren(Get(parsedComponents)[1])) = 2

----------------------------------------------------------------------------
(* Claims about getComponentMapping *)

\* no registry entry matches the node by type, by name substring or by a predicate
MatchesNothing(node) ==
    \A i \in 1..Len(InitialComponentMappings) :
       LET mapping == InitialComponentMappings[i] IN
       /\ mapping.figmaType /= node.type
       /\ ~(IsSome(mapping.figmaName) /\ nameContains(node, Get(mapping.figmaName)))
       /\ \A k \in 1..Len(mapping.rules) : ~evaluateRule(mapping.rules[k], node)

\* C2: every candidate getComponentMapping returns has a confidence above 20 and at
\* most 100 (so never negative), and a node that matches no type, name substring or
\* predicate of any registry entry gets the empty candidate list.
C2_ConfidenceRange ==
    \A c \in 1..Len(mappingCalls) :
       /\ \A k \in 1..Len(mappingCalls[c]) :
             /\ mappingCalls[c][k].confidence > 20
             /\ mappingCalls[c][k].confidence <= 100
             /\ mappingCalls[c][k].confidence >= 0
       /\ MatchesNothing(Get(figmaNode)) => mappingCalls[c] = <<>>

\* a call whose first candidate accumulated more than 100 and is reported at 100
C2_Witness ==
    /\ Len(mappingCalls) >= 1
    /\ Len(mappingCalls[1]) >= 2
    /\ mappingCalls[1][1].confidence = 100
    /\ accumulatedConfidence(InitialComponentMappings[1], Get(figmaNode)) > 100

\* the place of a candidate's entry in the registry, in registration order
RegistrationIndex(candidate) ==
    CHOOSE i \in 1..Len(InitialComponentMappings) :
        InitialComponentMappings[i].antdComponent = candidate.antdComponent

\* C3: the candidate list is in descending order of confidence, candidates of equal
\* (capped) confidence are in registration order, and so the head is the earliest
\* registered entry among those of maximal confidence.
C3_SortedWithRegistrationTieBreak ==
    \A c \in 1..Len(mappingCalls) :
       LET result == mappingCalls[c] IN
       /\ \A i, j \in 1..Len(result) :
             i < j =>
               /\ result[i].confidence >= result[j].confidence
               /\ result[i].confidence = result[j].confidence
                     => RegistrationIndex(result[i]) < RegistrationIndex(result[j])
       /\ \A k \in 2..Len(result) :
             result[k].confidence = result[1].confidence
                => RegistrationIndex(result[1]) < RegistrationIndex(result[k])

\* a call whose two best candidates have the same confidence
C3_Witness ==
    /\ Len(mappingCalls) >= 1
    /\ Len(mappingCalls[1]) >= 3
    /\ mappingCalls[1][1].confidence = mappingCalls[1][2].confidence
    /\ mappingCalls[1][2].confidence > mappingCalls[1][3].confidence

\* selectMapping: the head of the candidate list, or nothing
SelectedMapping(result) ==
    IF result = <<>> THEN None
    ELSE Some([antdComponent |-> result[1].antdComponent, confidence |-> result[1].confidence])

IsPrimaryButtonScenario(node) ==
    /\ node.name = Some(name_PrimaryButton)
    /\ node.type = "FRAME"
    /\ node.content = Some([text |-> Some("Submit")])
    /\ IsSome(node.layout) /\ Get(node.layout).height = 32

\* C10: for the frame named "Primary Button" with text "Submit" and height 32, the first
\* candidate is the Button entry, with a confidence of at least 50.
C10_PrimaryButtonMapsToButton ==
    \A c \in 1..Len(mappingCalls) :
       IsPrimaryButtonScenario(Get(figmaNode)) =>
          /\ mappingCalls[c] /= <<>>
          /\ mappingCalls[c][1].antdComponent = "Button"
          /\ mappingCalls[c][1].confidence >= 50

\* the scenario's node has been mapped, and other entries are candidates too
C10_Witness ==
    /\ Len(mappingCalls) >= 1
    /\ IsPrimaryButtonScenario(Get(figmaNode))
    /\ Len(mappingCalls[1]) >= 2


----------------------------------------------------------------------------
(* Claims about generateComponent *)

\* the exception reaches the catch of generateComponent: the list of components is
\* missing or empty, or a root component is null (processComponent's own handler
\* throws on it)
ReachesCatch(config) ==
    \/ ~IsSome(config.figmaData.components)
    \/ Len(Get(config.figmaData.components)) = 0
    \/ \E k \in 1..Len(Get(config.figmaData.components)) :
          Get(config.figmaData.components)[k] = NullComponent

WarningsOfKind(result, kind) ==
    {result.warnings[k] : k \in {i \in 1..Len(result.warnings) : result.warnings[i].kind = kind}}

RECURSIVE TagsOf(_)
\* the tags of an emitted element and of the elements nested in it
TagsOf(element) ==
    {element.tag} \cup UNION {TagsOf(element.children[k]) : k \in 1..Len(element.children)}

IsFallback(result, config) ==
    /\ result.code.kind = "error"
    /\ result.code = generateErrorComponent(config.componentName, result.code.description,
                                            config.outputFormat)
    /\ Len(result.warnings) > 0
    /\ result.warnings[Len(result.warnings)] = GenerationFailedWarning(result.code.description)

\* C5 as stated: generateComponent never throws, and whenever an exception is raised
\* while the component tree is processed, the code returned is the fallback component
\* carrying that exception's message.  Violated: an exception raised for one node is
\* caught by processComponent and the regular component is returned.
C5_AnyExceptionGivesFallback ==
    /\ genOutcome /= "threw"
    /\ genOutcome = "returned" =>
         \A warning \in WarningsOfKind(Get(genResult), "Failed to process component")
                        \cup WarningsOfKind(Get(genResult), "Code generation failed") :
            /\ Get(genResult).code.kind = "error"
            /\ Get(genResult).code.description = warning.message

\* C5, amended: generateComponent never throws.  It returns the fallback component
\* carrying the exception's message, with a "Code generation failed" warning as the
\* last warning, exactly when an exception reaches its own catch; an exception raised
\* for one node and caught by processComponent leaves a "Failed to process component"
\* warning and the regular component.
C5_FallbackOnlyWhenCatchReached ==
    /\ genOutcome /= "threw"
    /\ genOutcome = "returned" =>
         LET result == Get(genResult)
             config == Get(genConfig)
         IN /\ ReachesCatch(config) => IsFallback(result, config)
            /\ ~ReachesCatch(config) =>
                 /\ result.code.kind = "component"
                 /\ WarningsOfKind(result, "Code generation failed") = {}

\* an exception was raised for a node, and the regular component came back with
\* another node emitted in it
C5_Witness ==
    /\ genOutcome = "returned"
    /\ WarningsOfKind(Get(genResult), "Failed to process component") /= {}
    /\ Get(genResult).code.kind = "component"
    /\ Len(Get(genResult).code.elements) > 0

\* the root components processComponent is called on: those before the first null
ProcessedRoots(config) ==
    LET components == Get(config.figmaData.components)
    IN {components[k] : k \in {i \in 1..Len(components) :
                                 \A j \in 1..i : components[j] /= NullComponent}}

\* the catalog lookup for the component selected for this node yields nothing
LookupYieldsNothing(component, registry, dirs) ==
    LET mappings == getComponentMapping(registry, component)
    IN Len(mappings) > 0 /\ DirectoryOf(mappings[1].antdComponent) \notin dirs

\* C6 as stated: when the catalog lookup for a node's selected component yields
\* nothing, the artifact returned is the fallback component, and nothing is thrown.
\* Violated: the node is skipped with a warning and the regular component is returned.
C6_UndefinedEntryGivesFallback ==
    /\ genOutcome /= "threw"
    /\ genOutcome = "returned" =>
         (WarningsOfKind(Get(genResult), "Could not analyze Ant Design component") /= {}
            => Get(genResult).code.kind = "error")

\* C6, amended: when the catalog lookup for a node's selected component yields
\* nothing, nothing is thrown; a "Could not analyze Ant Design component" warning
\* naming the component is recorded, the selected mapping stays in the mappings list,
\* the component is not emitted, and the artifact is the fallback only if an exception
\* reaches the catch of generateComponent for another reason.
C6_UndefinedEntrySkipsNode ==
    /\ genOutcome /= "threw"
    /\ genOutcome = "returned" =>
         LET result == Get(genResult)
             config == Get(genConfig)
         IN /\ IsSome(config.figmaData.components) =>
                 \A component \in ProcessedRoots(config) :
                    LookupYieldsNothing(component, componentMappings, antdDirs) =>
                       NotAnalyzedWarning(getComponentMapping(componentMappings, component)[1])
                          \in WarningsOfKind(result, "Could not analyze Ant Design component")
            /\ \A warning \in WarningsOfKind(result, "Could not analyze Ant Design component") :
                 /\ DirectoryOf(warning.subject) \notin antdDirs
                 /\ \E k \in 1..Len(result.mappings) :
                       result.mappings[k].antdComponent = warning.subject
                 /\ result.code.kind = "component" =>
                       \A k \in 1..Len(result.code.elements) :
                          warning.subject \notin TagsOf(result.code.elements[k])
                 /\ result.code.kind = "error" => ReachesCatch(config)

\* a lookup yielded nothing for one node, and the regular component came back with
\* another node emitted in it
C6_Witness ==
    /\ genOutcome = "returned"
    /\ WarningsOfKind(Get(genResult), "Could not analyze Ant Design component") /= {}
    /\ Get(genResult).code.kind = "component"
    /\ Len(Get(genResult).code.elements) > 0

RECURSIVE HasNull(_, _)
\* some node of these trees, from index i on, is null
HasNull(components, i) ==
    /\ i <= Len(components)
    /\ \/ components[i] = NullComponent
       \/ HasNull(semChildren(components[i]), 1)
       \/ HasNull(components, i + 1)

\* a list of trees of component objects has been handed over and the call returned
ReturnedForObjects ==
    /\ genOutcome = "returned"
    /\ IsSome(Get(genConfig).figmaData.components)
    /\ Len(Get(Get(genConfig).figmaData.components)) > 0
    /\ ~HasNull(Get(Get(genConfig).figmaData.components), 1)

\* the node is mappable: a rule set selects a component for it, the catalog knows
\* that component, and its properties can be read
Mappable(component) ==
    /\ Len(getComponentMapping(componentMappings, component)) > 0
    /\ ~LookupYieldsNothing(component, componentMappings, antdDirs)
    /\ IsSome(component.properties)

\* the component selected for a mappable node
SelectedTag(component) == getComponentMapping(componentMappings, component)[1].antdComponent

RECURSIVE ExpectedSkeleton(_, _)
\* the mapped tree skip-and-warn leaves of these trees, from index i on: the mappable
\* nodes all of whose ancestors are mappable, in their order
ExpectedSkeleton(components, i) ==
    IF i > Len(components) THEN <<>>
    ELSE (IF Mappable(components[i])
          THEN <<[tag |-> SelectedTag(components[i]),
                  children |-> ExpectedSkeleton(semChildren(components[i]), 1)]>>
          ELSE <<>>)
         \o ExpectedSkeleton(components, i + 1)

RECURSIVE EmittedSkeleton(_, _)
\* the tags of the emitted elements and their nesting
EmittedSkeleton(elements, i) ==
    IF i > Len(elements) THEN <<>>
    ELSE <<[tag |-> elements[i].tag, children |-> EmittedSkeleton(elements[i].children, 1)]>>
         \o EmittedSkeleton(elements, i + 1)

RECURSIVE FailedCount(_, _)
\* the number of unmappable nodes all of whose ancestors are mappable
FailedCount(components, i) ==
    IF i > Len(components) THEN 0
    ELSE (IF Mappable(components[i]) THEN FailedCount(semChildren(components[i]), 1) ELSE 1)
         + FailedCount(components, i + 1)

RECURSIVE KeptCount(_, _)
\* the number of mappable nodes all of whose ancestors are mappable
KeptCount(components, i) ==
    IF i > Len(components) THEN 0
    ELSE (IF Mappable(components[i]) THEN 1 + KeptCount(semChildren(components[i]), 1) ELSE 0)
         + KeptCount(components, i + 1)

RECURSIVE ElementCount(_, _)
\* the number of emitted elements
ElementCount(elements, i) ==
    IF i > Len(elements) THEN 0
    ELSE 1 + ElementCount(elements[i].children, 1) + ElementCount(elements, i + 1)

RECURSIVE SkipsAChild(_, _)
\* some mappable node reached by the walk has an unmappable child next to a mappable one
SkipsAChild(components, i) ==
    /\ i <= Len(components)
    /\ \/ /\ Mappable(components[i])
          /\ \/ /\ \E k \in 1..Len(semChildren(components[i])) :
                      ~Mappable(semChildren(components[i])[k])
                /\ \E k \in 1..Len(semChildren(components[i])) :
                      Mappable(semChildren(components[i])[k])
             \/ SkipsAChild(semChildren(components[i]), 1)
       \/ SkipsAChild(components, i + 1)

\* C12: skip-and-warn.  Whenever component objects are processed, the regular
\* component is returned; every mappable node under mappable ancestors is emitted,
\* its emitted children being exactly its mappable children in their original order,
\* whatever failed among its children; and each failed node met adds one warning.
C12_SkipAndWarn ==
    ReturnedForObjects =>
        /\ Get(genResult).code.kind = "component"
        /\ EmittedSkeleton(Get(genResult).code.elements, 1)
             = ExpectedSkeleton(Get(Get(genConfig).figmaData.components), 1)
        /\ Len(Get(genResult).warnings)
             = FailedCount(Get(Get(genConfig).figmaData.components), 1)

\* a mappable node with a failed child and a mappable child has been processed
C12_Witness ==
    /\ ReturnedForObjects
    /\ SkipsAChild(Get(Get(genConfig).figmaData.components), 1)
    /\ Len(Get(genResult).warnings) > 0

RECURSIVE NodeCount(_, _)
\* the number of nodes of these trees
NodeCount(components, i) ==
    IF i > Len(components) THEN 0
    ELSE 1 + NodeCount(semChildren(components[i]), 1) + NodeCount(components, i + 1)

RECURSIVE MappableCount(_, _)
\* the number of nodes that are mappable on their own
MappableCount(components, i) ==
    IF i > Len(components) THEN 0
    ELSE (IF Mappable(components[i]) THEN 1 ELSE 0)
         + MappableCount(semChildren(components[i]), 1) + MappableCount(components, i + 1)

\* C13: partial-failure asymmetry.  The emitted nodes are the mappable nodes all of
\* whose ancestors are mappable, no more and no fewer: nothing below an unmappable
\* node is emitted or even visited (it adds neither a mapping nor a warning), while
\* an unmappable child takes away nothing but its own subtree.
C13_SubtreeDroppedParentKept ==
    ReturnedForObjects =>
        /\ ElementCount(Get(genResult).code.elements, 1)
             = KeptCount(Get(Get(genConfig).figmaData.components), 1)
        /\ ElementCount(Get(genResult).code.elements, 1) + Len(Get(genResult).warnings)
             = KeptCount(Get(Get(genConfig).figmaData.components), 1)
               + FailedCount(Get(Get(genConfig).figmaData.components), 1)
        /\ Len(Get(genResult).mappings)
             <= KeptCount(Get(Get(genConfig).figmaData.components), 1)
                + FailedCount(Get(Get(genConfig).figmaData.components), 1)

\* a mappable node keeps a mappable child while the subtree of its unmappable child,
\* which holds a node mappable on its own, is gone
C13_Witness ==
    /\ ReturnedForObjects
    /\ SkipsAChild(Get(Get(genConfig).figmaData.components), 1)
    /\ MappableCount(Get(Get(genConfig).figmaData.components), 1)
         > KeptCount(Get(Get(genConfig).figmaData.components), 1)
    /\ ElementCount(Get(genResult).code.elements, 1) > 1

\* the node's visibility flag is false
Hidden(component) ==
    /\ IsSome(component.properties)
    /\ \E k \in 1..Len(Get(component.properties)) :
          /\ Get(component.properties)[k].name = "visible"
          /\ Get(component.properties)[k].value = FALSE

\* the style attributes of an emitted tag, in the order of emission
StyleAttributes(element) == SelectSeq(element.attributes, LAMBDA a : a.key = "style")

\* the style map in effect for an emitted tag: of several attributes of one name,
\* the last one emitted is the one the element gets
EffectiveStyle(element) ==
    IF Len(StyleAttributes(element)) = 0 THEN <<>>
    ELSE StyleAttributes(element)[Len(StyleAttributes(element))].value

SuppressesDisplay(element) ==
    \E k \in 1..Len(EffectiveStyle(element)) :
        /\ EffectiveStyle(element)[k].key = "display"
        /\ EffectiveStyle(element)[k].value = "none"

RECURSIVE HiddenSuppressed(_, _, _, _)
\* every hidden node among the emitted ones has display none in effect; elements[j]
\* is the element of the first mappable component from index i on
HiddenSuppressed(components, i, elements, j) ==
    IF i > Len(components) \/ j > Len(elements) THEN TRUE
    ELSE IF Mappable(components[i])
         THEN /\ Hidden(components[i]) => SuppressesDisplay(elements[j])
              /\ HiddenSuppressed(semChildren(components[i]), 1, elements[j].children, 1)
              /\ HiddenSuppressed(components, i + 1, elements, j + 1)
         ELSE HiddenSuppressed(components, i + 1, elements, j)

\* C14 as stated: for every mapped node whose visibility flag is false, the emitted
\* tag has display none in effect, whatever else is emitted for it, the style map
\* derived from its styling included.  Violated: a hidden node with a border or a
\* background gets a second style attribute, emitted after the one holding display.
C14_HiddenNodeSuppressed ==
    ReturnedForObjects =>
        HiddenSuppressed(Get(Get(genConfig).figmaData.components), 1,
                         Get(genResult).code.elements, 1)

\* the place of a component name in the alphabetical order of the names the registry
\* can select
AlphabeticalRank(name) ==
    CASE name = "Button" -> 1 [] name = "Card" -> 2 [] name = "div" -> 3
      [] name = "Input" -> 4 [] name = "Typography.Text" -> 5

\* the tags of all the emitted elements
EmittedTags(elements) == UNION {TagsOf(elements[k]) : k \in 1..Len(elements)}

\* C15: import aggregation.  The regular component's source holds the import of the
\* runtime module followed by one import of the component library, whose names are
\* exactly the tags of the emitted elements, each once, in alphabetical order.
C15_ImportsAreTheEmittedTags ==
    (genOutcome = "returned" /\ Get(genResult).code.kind = "component") =>
        /\ Len(Get(genResult).code.importStatements) = 2
        /\ Get(genResult).code.importStatements[1].module = "react"
        /\ Get(genResult).code.importStatements[2].module = "antd"
        /\ Range(Get(genResult).code.importStatements[2].named)
             = EmittedTags(Get(genResult).code.elements)
        /\ \A i, k \in 1..Len(Get(genResult).code.importStatements[2].named) :
              i < k => AlphabeticalRank(Get(genResult).code.importStatements[2].named[i])
                         < AlphabeticalRank(Get(genResult).code.importStatements[2].named[k])

\* a tree with two different components, one nested in the other, has been emitted
C15_Witness ==
    /\ genOutcome = "returned"
    /\ Get(genResult).code.kind = "component"
    /\ Len(Get(genResult).code.importStatements[2].named) >= 2
    /\ \E k \in 1..Len(Get(genResult).code.elements) :
          /\ Len(Get(genResult).code.elements[k].children) > 0
          /\ Get(genResult).code.elements[k].children[1].tag
               /= Get(genResult).code.elements[k].tag

----------------------------------------------------------------------------
(* Claims about CodeValidator *)

\* the number of entries of result.errors of this severity
SeverityCount(result, severity) ==
    Cardinality({k \in 1..Len(result.errors) : result.errors[k].severity = severity})

\* 100 less 20 per error-severity entry, 5 per warning-severity entry of errors and
\* 2 per warning
Deducted(result) ==
    100 - 20 * SeverityCount(result, "error") - 5 * SeverityCount(result, "warning")
        - 2 * Len(result.warnings)

\* C7: the score calculateScore gives a result is 100 less 20 per error-severity
\* diagnostic, 5 per warning-severity error-kind diagnostic and 2 per plain warning,
\* floored at 0; it lies in 0..100, is 100 when there is no diagnostic and 0 when
\* there are five or more error-severity diagnostics.
C7_ScoreFormula ==
    IsSome(scoreValue) =>
        /\ Get(scoreValue) = (IF Deducted(Get(scoreInput)) < 0 THEN 0
                              ELSE Deducted(Get(scoreInput)))
        /\ Get(scoreValue) \in 0..100
        /\ (Len(Get(scoreInput).errors) = 0 /\ Len(Get(scoreInput).warnings) = 0)
              => Get(scoreValue) = 100
        /\ SeverityCount(Get(scoreInput), "error") >= 5 => Get(scoreValue) = 0

\* a result with five error-severity diagnostics and warnings besides, whose
\* deductions exceed 100, scored 0
C7_Witness ==
    /\ scoreValue = Some(0)
    /\ SeverityCount(Get(scoreInput), "error") >= 5
    /\ Deducted(Get(scoreInput)) < 0

\* C8: in every result validate returns, isValid holds if and only if errors holds
\* no error-severity diagnostic, whatever the score.
C8_IsValidIffNoErrorSeverity ==
    valOutcome = "returned" =>
        (Get(valResult).isValid <=> SeverityCount(Get(valResult), "error") = 0)

\* a result with warnings only and score 0 that is valid
C8_Witness ==
    /\ valOutcome = "returned"
    /\ Get(valResult).isValid
    /\ Get(valResult).score = 0
    /\ Len(Get(valResult).errors) = 0
    /\ Len(Get(valResult).warnings) > 0

\* the text holds a <Form.Item tag
UsesFormItem(body) ==
    \E i \in 1..(Len(body) - 3) :
       body[i] = Lt /\ body[i + 1] = Word("Form") /\ body[i + 2] = Dot
          /\ body[i + 3] = Word("Item")

\* the text holds a <Form tag that is not a <Form.Item tag
UsesForm(body) ==
    \E i \in 1..(Len(body) - 2) :
       body[i] = Lt /\ body[i + 1] = Word("Form") /\ body[i + 2] /= Dot

\* C9: validating a source text that uses the Form.Item tag with no Form tag
\* anywhere gives exactly one antd-usage diagnostic of error severity.
C9_FormItemOutsideFormReported ==
    (/\ valOutcome = "returned"
     /\ Get(valCode).kind = "string"
     /\ UsesFormItem(Get(valCode).body)
     /\ ~UsesForm(Get(valCode).body))
    => Cardinality({k \in 1..Len(Get(valResult).errors) :
                      /\ Get(valResult).errors[k].type = "antd-usage"
                      /\ Get(valResult).errors[k].severity = "error"}) = 1

----------------------------------------------------------------------------
(* Claims about the pipeline *)

\* C11: an empty raw document (a root without children) is ingested as one component
\* without children; nothing of it is mapped, and generateComponent returns the
\* regular component with an empty body, not the error component, the only warning
\* being that no component was found for the root.
C11_EmptyDocumentGivesEmptyComponent ==
    (IsSome(rawDocument) /\ Len(rawChildren(Get(rawDocument))) = 0) =>
        /\ Len(Get(parsedComponents)) = 1
        /\ semChildren(Get(parsedComponents)[1]) = <<>>
        /\ genOutcome /= "threw"
        /\ genOutcome = "returned" =>
             /\ Get(genResult).code.kind = "component"
             /\ Get(genResult).code.elements = <<>>
             /\ Get(genResult).mappings = <<>>
             /\ Len(Get(genResult).warnings) = 1
             /\ Get(genResult).warnings[1].kind = "No suitable Ant Design component found for"
             /\ Get(genResult).warnings[1].subject = Get(rawDocument).name

\* an empty document has been ingested and the component generated from it
C11_Witness ==
    /\ IsSome(rawDocument)
    /\ Get(rawDocument).type = "DOCUMENT"
    /\ Len(rawChildren(Get(rawDocument))) = 0
    /\ genOutcome = "returned"
    /\ Get(genResult).code.kind = "component"

\* the rules an option governs, and the messages of the diagnostics of each
GovernedRules ==
    {"ImportValidationRule", "PropValidationRule", "AccessibilityValidationRule",
     "PerformanceValidationRule"}

GoverningOption(rule) ==
    CASE rule = "ImportValidationRule" -> "checkImports"
      [] rule = "PropValidationRule" -> "checkProps"
      [] rule = "AccessibilityValidationRule" -> "checkAccessibility"
      [] rule = "PerformanceValidationRule" -> "checkPerformance"

MessagesOf(rule) ==
    CASE rule = "ImportValidationRule" -> {"Missing React import", "Unused import from antd"}
      [] rule = "PropValidationRule" -> {"Invalid size prop value"}
      [] rule = "AccessibilityValidationRule" ->
            {"Image missing alt text", "Button without accessible label"}
      [] rule = "PerformanceValidationRule" -> {"Inline function in event handler"}

\* the option governing the rule was passed as false
TurnedOff(rule, options) ==
    GoverningOption(rule) \in DOMAIN options /\ options[GoverningOption(rule)] = FALSE

\* the diagnostic comes from a rule whose option was passed as false
FromTurnedOffRule(diagnostic, options) ==
    \E rule \in GovernedRules : TurnedOff(rule, options) /\ diagnostic.message \in MessagesOf(rule)

\* the diagnostics of a list that come from no rule turned off
OfOtherRules(diagnostics, options) ==
    SelectSeq(diagnostics, LAMBDA d : ~FromTurnedOffRule(d, options))

\* the result of the same text with every check left on
AllChecks(code) == validate(code, <<>>, antdComponents)

\* a text has been validated and parsed
ValidatedText == valOutcome = "returned" /\ Get(valCode).kind = "string"

\* C16: a rule whose governing option is false leaves no diagnostic in the result, and
\* the diagnostics of the other rules are those the same text gets with every check on.
C16_RulesRunOnlyWhenEnabled ==
    ValidatedText =>
        /\ Get(valResult).errors
             = OfOtherRules(AllChecks(Get(valCode)).errors, Get(valOptions))
        /\ Get(valResult).warnings
             = OfOtherRules(AllChecks(Get(valCode)).warnings, Get(valOptions))
        /\ Get(valResult).suggestions
             = OfOtherRules(AllChecks(Get(valCode)).suggestions, Get(valOptions))
        /\ \A k \in 1..Len(Get(valResult).errors) :
              ~FromTurnedOffRule(Get(valResult).errors[k], Get(valOptions))
        /\ \A k \in 1..Len(Get(valResult).warnings) :
              ~FromTurnedOffRule(Get(valResult).warnings[k], Get(valOptions))

\* one check was turned off for a text that has a diagnostic of its rule with the
\* check on, and a diagnostic of another governed rule stays in the result
C16_Witness ==
    /\ ValidatedText
    /\ \E rule \in GovernedRules :
          /\ TurnedOff(rule, Get(valOptions))
          /\ \E k \in 1..Len(AllChecks(Get(valCode)).warnings) :
                AllChecks(Get(valCode)).warnings[k].message \in MessagesOf(rule)
    /\ \E rule \in GovernedRules, k \in 1..Len(Get(valResult).warnings) :
          Get(valResult).warnings[k].message \in MessagesOf(rule)

\* the matched text is one self-closing tag: it ends with "/>" and opens no other tag,
\* so it has no inline text content
IsSelfClosingTag(fullMatch) ==
    /\ Len(fullMatch) >= 2
    /\ fullMatch[Len(fullMatch) - 1] = Slash
    /\ fullMatch[Len(fullMatch)] = Gt
    /\ \A k \in 2..Len(fullMatch) : fullMatch[k] /= Lt

\* the Button elements extracted from the validated text that have neither an
\* aria-label attribute nor text content
UnlabelledButtons ==
    SelectSeq(extractJSX(Get(valCode), antdComponents),
              LAMBDA jsx : /\ jsx.tagName = "Button"
                           /\ ~includesAriaLabel(jsx.fullMatch)
                           /\ IsSelfClosingTag(jsx.fullMatch))

\* C17 as stated: with accessibility checking enabled, every Button tag that has
\* neither an accessible-label attribute nor inline text content is flagged.
\* Violated: the rule also requires the matched text to hold no ">", which every
\* matched tag holds, so no Button is ever flagged.
C17_UnlabelledButtonFlagged ==
    (ValidatedText /\ configOf(Get(valOptions)).checkAccessibility) =>
        \A k \in 1..Len(UnlabelledButtons) :
            \E w \in 1..Len(Get(valResult).warnings) :
                /\ Get(valResult).warnings[w].message = "Button without accessible label"
                /\ Get(valResult).warnings[w].line = UnlabelledButtons[k].line

\* parseCode raises on what was handed to validate
ParseRaises == parseCode(Get(valCode), antdComponents).threw

\* C18: validate never throws; when parseCode raises, the result returned has isValid
\* false, score 0 and exactly one entry in errors, the parse anomaly, of severity error.
C18_ValidateNeverThrows ==
    /\ valOutcome \in {"idle", "returned"}
    /\ (valOutcome = "returned" /\ ParseRaises) =>
          /\ Get(valResult).isValid = FALSE
          /\ Get(valResult).score = 0
          /\ Len(Get(valResult).errors) = 1
          /\ Get(valResult).errors[1].type = "syntax"
          /\ Get(valResult).errors[1].severity = "error"
          /\ Get(valResult).errors[1].detail = parseCode(Get(valCode), antdComponents).message

\* validate has returned for a value parseCode raises on
C18_Witness ==
    /\ valOutcome = "returned"
    /\ Get(valCode).kind /= "string"
    /\ ParseRaises
    /\ Len(Get(valResult).errors) = 1

----------------------------------------------------------------------------
(* Claims about AntdAnalyzer *)

\* a call of analyzeComponent starts in this step, and the call that starts
CallStarts == Len(analyzerCalls') = Len(analyzerCalls) + 1
StartedCall == analyzerCalls'[Len(analyzerCalls')]

KeyOfCall(call) == cacheKey(call.componentName, call.includeExamples)

\* a call for this name has returned a component
SucceededForName(componentName) ==
    \E c \in 1..Len(analyzerCalls) :
        /\ analyzerCalls[c].pc = "done"
        /\ IsSome(analyzerCalls[c].result)
        /\ analyzerCalls[c].componentName = componentName

\* a call with these arguments has returned a component
SucceededForKey(key) ==
    \E c \in 1..Len(analyzerCalls) :
        /\ analyzerCalls[c].pc = "done"
        /\ IsSome(analyzerCalls[c].result)
        /\ KeyOfCall(analyzerCalls[c]) = key

\* the call that starts is answered from the cache and builds nothing
ServedFromCache ==
    /\ StartedCall.fromCache
    /\ StartedCall.pc = "done"
    /\ IsSome(StartedCall.result)
    /\ builtObjects' = builtObjects
    /\ componentsCache' = componentsCache

AllCompleted == \A c \in 1..Len(analyzerCalls) : analyzerCalls[c].pc = "done"

\* no call with these arguments is in flight
NoneInFlight(key) ==
    \A c \in 1..Len(analyzerCalls) :
        KeyOfCall(analyzerCalls[c]) = key => analyzerCalls[c].pc = "done"

----------------------------------------------------------------------------
(* Claims about the layout of parsed components *)

RECURSIVE GeometryNonNegative(_, _)
\* x, y, width and height of these components and of their descendants, from index i
\* on, are all at least 0
GeometryNonNegative(components, i) ==
    \/ i > Len(components)
    \/ /\ Get(components[i].layout).x >= 0
       /\ Get(components[i].layout).y >= 0
       /\ Get(components[i].layout).width >= 0
       /\ Get(components[i].layout).height >= 0
       /\ GeometryNonNegative(semChildren(components[i]), 1)
       /\ GeometryNonNegative(components, i + 1)

\* C22 as stated: every semantic node has non-negative x, y, width and height,
\* whatever the raw node.  Violated: extractLayout copies the raw box as it is, and a
\* node placed left of or above the canvas origin has a negative x or y.
C22_GeometryNonNegative ==
    IsSome(parsedComponents) => GeometryNonNegative(Get(parsedComponents), 1)

----------------------------------------------------------------------------
(* Claims about colorToHex *)

\* the integer nearest to v * 255 for v = k / 1000, the upper one of two equally near
RoundHalfUp(k) ==
    CHOOSE n \in 0..255 : 2000 * n - 1000 <= 510 * k /\ 510 * k < 2000 * n + 1000

\* the two hex digits of a number from 0 to 255
TwoHexDigits(n) == <<HexDigits[(n \div 16) + 1], HexDigits[(n % 16) + 1]>>

\* the encoding fixed for a channel value
FixedEncoding(k) ==
    CASE k = 1000 -> <<"f", "f">> [] k = 0 -> <<"0", "0">> [] k = 500 -> <<"8", "0">>
      [] OTHER -> TwoHexDigits(RoundHalfUp(k))

\* a node with a color whose channels lie in [0.0, 1.0] has been parsed
ColorParsed ==
    /\ IsSome(parsedComponents)
    /\ IsSome(Get(rawDocument).backgroundColor)
    /\ \A c \in {"r", "g", "b"} : Get(Get(rawDocument).backgroundColor)[c] \in 0..1000

\* C23: the hex string of a color is "#" followed, for each channel value v in
\* [0.0, 1.0], by the two lowercase hex digits of round-half-up(v * 255); ff for 1.0,
\* 00 for 0.0 and 80 for 0.5.
C23_ChannelsRoundHalfUp ==
    ColorParsed =>
        Get(Get(Get(parsedComponents)[1].styling).backgroundColor)
          = <<"#">> \o FixedEncoding(Get(Get(rawDocument).backgroundColor).r)
                    \o FixedEncoding(Get(Get(rawDocument).backgroundColor).g)
                    \o FixedEncoding(Get(Get(rawDocument).backgroundColor).b)

\* a color with a channel exactly halfway between two integers (0.1 * 255 = 25.5), a
\* channel of 1.0 and a channel of 0.0 has been encoded
C23_Witness ==
    /\ ColorParsed
    /\ Get(Get(rawDocument).backgroundColor) = [r |-> 100, g |-> 1000, b |-> 0]
    /\ Get(Get(Get(parsedComponents)[1].styling).backgroundColor)
         = <<"#", "1", "a", "f", "f", "0", "0">>

----------------------------------------------------------------------------
(* Claims about FigmaParser.parseFile *)

RECURSIVE IdsOf(_)
\* the ids of the nodes of a raw tree
IdsOf(node) ==
    {node.id} \cup UNION {IdsOf(rawChildren(node)[k]) : k \in 1..Len(rawChildren(node))}

\* parseFile was asked for a node id that the document supplied does not hold
AskedForAbsentId ==
    /\ IsSome(parseCall)
    /\ IsSome(Get(parseCall).nodeId)
    /\ IsSome(rawDocument)
    /\ Get(Get(parseCall).nodeId) \notin IdsOf(Get(rawDocument))

\* C21: when the node id asked for is nowhere in the raw tree, whichever endpoint
\* supplied that tree, parseFile throws the not-found error and returns no components.
C21_AbsentIdIsNotFound ==
    AskedForAbsentId =>
        /\ Get(parseCall).threw
        /\ Get(parseCall).message = "Failed to parse Figma file: Node with ID not found"
        /\ parsedComponents = None

\* the file endpoint, used after the nodes endpoint gave nothing, supplied a document
\* with children that does not hold the id asked for
C21_Witness ==
    /\ AskedForAbsentId
    /\ Get(parseCall).fetch = "file"
    /\ Len(rawChildren(Get(rawDocument))) > 0
    /\ Get(parseCall).threw

----------------------------------------------------------------------------
(* Claims about the attributes of an emitted tag *)

\* the form the loop gives a value of that type
FormOf(prop) ==
    CASE typeOfValue(prop) = "string" -> "quoted"
      [] typeOfValue(prop) = "boolean" -> IF prop.value THEN "bare" ELSE "expression"
      [] OTHER -> "expression"

\* the attributes written by the loop over the props (the attribute of the styling
\* map, written after the loop, left out)
LoopAttributes(config, element) ==
    IF IsSome(config.styling.style)
    THEN SubSeq(element.attributes, 1, Len(element.attributes) - 1)
    ELSE element.attributes

\* how many loop attributes carry the key of that property, in its form
AttributesOf(config, element, prop) ==
    Cardinality({i \in 1..Len(LoopAttributes(config, element)) :
                    /\ LoopAttributes(config, element)[i].key = prop.key
                    /\ LoopAttributes(config, element)[i].form = FormOf(prop)})

\* C24 as stated: every property of the props object, children included, becomes
\* exactly one attribute of the tag, in the form of its type
C24_EveryPropertyIsOneAttribute ==
    IsSome(jsxElement) =>
        \A i \in 1..Len(Get(jsxConfig).props) :
            AttributesOf(Get(jsxConfig), Get(jsxElement), Get(jsxConfig).props[i]) = 1

\* C24: every property other than children becomes exactly one attribute, in the
\* order of the props object and in the form of its type (string quoted, true bare,
\* false and every other value an expression); children becomes no attribute, and a
\* non-empty children string is the text between the tags
C24_EveryPropertyButChildrenIsOneAttribute ==
    IsSome(jsxElement) =>
        LET config == Get(jsxConfig)
            element == Get(jsxElement)
            others == SelectSeq(config.props, LAMBDA prop : prop.key /= "children")
            emitted == LoopAttributes(config, element)
        IN /\ Len(emitted) = Len(others)
           /\ \A i \in 1..Len(others) :
                  /\ emitted[i].key = others[i].key
                  /\ emitted[i].form = FormOf(others[i])
           /\ \A i \in 1..Len(config.props) :
                  config.props[i].key = "children" =>
                      /\ AttributesOf(config, element, config.props[i]) = 0
                      /\ element.text = Some(config.props[i].value)

\* a tag with a quoted, a bare and an expression attribute
C24_Witness ==
    /\ IsSome(jsxElement)
    /\ \E i, j, k \in 1..Len(Get(jsxElement).attributes) :
          /\ Get(jsxElement).attributes[i].form = "quoted"
          /\ Get(jsxElement).attributes[j].form = "bare"
          /\ Get(jsxElement).attributes[k].form = "expression"
          /\ Get(jsxElement).attributes[k].key = "loading"
----------------------------------------------------------------------------
(* Claims about the size of a Button *)

\* the values of the size attributes of an emitted tag, in the order of emission
SizeAttributes(element) ==
    LET sizes == SelectSeq(element.attributes, LAMBDA a : a.key = "size")
    IN [k \in 1..Len(sizes) |-> sizes[k].value]

\* the height of the box of the only component of the configuration
OnlyHeight(config) == Get(Get(config.figmaData.components)[1].layout).height

\* a Button was emitted for the only component of the configuration
ButtonEmitted ==
    /\ genOutcome = "returned"
    /\ Get(genResult).code.kind = "component"
    /\ Len(Get(genResult).code.elements) = 1
    /\ Get(genResult).code.elements[1].tag = "Button"

\* C25: the tag emitted for a node mapped to Button carries exactly one size, fixed by
\* the height of the node's box alone: small up to 24, large from 40 on, middle between.
C25_SizeFollowsHeight ==
    ButtonEmitted =>
        SizeAttributes(Get(genResult).code.elements[1])
          = <<CASE OnlyHeight(Get(genConfig)) <= 24 -> "small"
                [] OnlyHeight(Get(genConfig)) >= 40 -> "large"
                [] OTHER -> "middle">>

\* a Button whose box is exactly as high as the large-size threshold
C25_Witness ==
    /\ ButtonEmitted
    /\ OnlyHeight(Get(genConfig)) = 40
    /\ SizeAttributes(Get(genResult).code.elements[1]) = <<"large">>
----------------------------------------------------------------------------
(* Claims about the style attribute of an emitted tag *)

RECURSIVE AtMostOneStyle(_)
\* the tag and every tag nested in it carry at most one style attribute
AtMostOneStyle(element) ==
    /\ Len(StyleAttributes(element)) <= 1
    /\ \A k \in 1..Len(element.children) : AtMostOneStyle(element.children[k])

\* C26 as stated: every emitted tag carries at most one style attribute, whatever the
\* synthesized properties and the style map of the node.  Violated: a node that is
\* both invisible and styled gets style from its properties and style from its map.
C26_AtMostOneStyleAttribute ==
    (genOutcome = "returned" /\ Get(genResult).code.kind = "component") =>
        \A k \in 1..Len(Get(genResult).code.elements) :
            AtMostOneStyle(Get(genResult).code.elements[k])
----------------------------------------------------------------------------
(* Claims about the component set of the validator *)

\* the tags of a text with their classification under that component set
Classification(code, antd) ==
    [k \in 1..Len(extractJSX(code, antd)) |->
        [tagName |-> extractJSX(code, antd)[k].tagName,
         isAntdComponent |-> extractJSX(code, antd)[k].isAntdComponent]]

\* the load started by the constructor completes after a validate call has returned
LoadCompletesAfterValidate ==
    /\ valOutcome = "returned" /\ Get(valCode).kind = "string"
    /\ loadState = "pending" /\ loadState' = "loaded"

\* C27 as stated: a validate call issued before the load of the component list has
\* completed classifies every tag of its text as the completed load would.  Violated:
\* the constructor does not wait for the load, so such a call sees the empty set.
C27_ClassificationIndependentOfLoad ==
    [][LoadCompletesAfterValidate =>
          Classification(Get(valCode), antdComponents)
            = Classification(Get(valCode), antdComponents')]_vars
----------------------------------------------------------------------------
(* Claims about the mappings list of a generation result *)

RECURSIVE PreOrderTags(_, _)
\* the tags of the emitted elements from index i on, each before the tags nested in it
PreOrderTags(elements, i) ==
    IF i > Len(elements) THEN <<>>
    ELSE <<elements[i].tag>> \o PreOrderTags(elements[i].children, 1)
         \o PreOrderTags(elements, i + 1)

\* the components named by the mappings list, in its order
MappedNames(result) == [k \in 1..Len(result.mappings) |-> result.mappings[k].antdComponent]

\* C28 as stated: the mappings list of a returned result holds one entry per
\* synthesized node, in depth-first pre-order, and nothing else: no entry for a
\* dropped node, none at all when the artifact is the fallback.  Violated: the
\* mapping is recorded as soon as it is selected, before the catalog lookup and the
\* property synthesis that may still drop the node or end the run.
C28_MappingsAreTheSynthesizedNodes ==
    genOutcome = "returned" =>
        MappedNames(Get(genResult))
          = IF Get(genResult).code.kind = "component"
            THEN PreOrderTags(Get(genResult).code.elements, 1)
            ELSE <<>>
----------------------------------------------------------------------------
(* Claims about the handler of tool calls *)

\* C29 as stated: a call of a tool that is not registered is answered with an error
\* whose code is MethodNotFound.  Violated: the MethodNotFound error of the default
\* case is thrown inside the try block, whose catch answers with InternalError.
C29_UnknownToolIsMethodNotFound ==
    \A k \in 1..Len(toolCalls) :
        toolCalls[k].name \notin RegisteredTools =>
            /\ toolCalls[k].answer.kind = "error"
            /\ toolCalls[k].answer.code = "MethodNotFound"
----------------------------------------------------------------------------
(* Claims about catalog lookups that yield no entry *)

\* the call at position c returns null in this step
ReturnsNull(c) ==
    /\ analyzerCalls[c].pc /= "done"
    /\ analyzerCalls'[c].pc = "done"
    /\ analyzerCalls'[c].result = None

\* the call at position c returns a component it built in this step
ReturnsBuilt(c) ==
    /\ analyzerCalls[c].pc /= "done"
    /\ analyzerCalls'[c].pc = "done"
    /\ IsSome(analyzerCalls'[c].result)

\* C30: a lookup that yields no entry (no directory for the name, or an error while
\* the entry is built) returns null and leaves the cache as it was, so the cache
\* never holds a negative result; a later lookup with the same arguments, finding no
\* entry in the cache, probes the catalog again, and the entry it then builds is in
\* the cache when it returns.
C30_NegativeResultsNotCached ==
    [][/\ \A c \in 1..Len(analyzerCalls) :
             /\ ReturnsNull(c) => componentsCache' = componentsCache
             /\ ReturnsBuilt(c) =>
                   /\ cacheHas(componentsCache', KeyOfCall(analyzerCalls[c]))
                   /\ Some(componentsCache'[KeyOfCall(analyzerCalls[c])])
                        = analyzerCalls'[c].result
       /\ \A key \in DOMAIN componentsCache' : componentsCache'[key] /= None
       /\ (CallStarts /\ ~SucceededForKey(KeyOfCall(StartedCall))) =>
             /\ StartedCall.pc = "access"
             /\ ~StartedCall.fromCache]_vars

\* a lookup returned null, a later one with the same arguments built the entry, and
\* the cache holds it
C30_Witness ==
    \E b, c \in 1..Len(analyzerCalls) :
        /\ b < c
        /\ KeyOfCall(analyzerCalls[b]) = KeyOfCall(analyzerCalls[c])
        /\ analyzerCalls[b].pc = "done" /\ analyzerCalls[b].result = None
        /\ analyzerCalls[c].pc = "done" /\ ~analyzerCalls[c].fromCache
        /\ IsSome(analyzerCalls[c].result)
        /\ cacheHas(componentsCache, KeyOfCall(analyzerCalls[c]))
        /\ Some(componentsCache[KeyOfCall(analyzerCalls[c])]) = analyzerCalls[c].result
====
